---- MODULE Spec2Model ----
(***************************************************************************)
(* Polymarket sharp-bettor tracker: the SQLite store (DatabaseManager),    *)
(* the notifier (TwitterBot.post_alert) and the scan cycle                 *)
(* (PolymarketTracker.run_cycle), as a state machine.                      *)
(*                                                                         *)
(* Tables are sets of rows, as in SQL: a key constraint is what the        *)
(* INSERT OR REPLACE / INSERT OR IGNORE statements make of it, not a       *)
(* property of the representation.  Timestamps are whole hours.  An        *)
(* Optional value is the empty set (None / NULL) or a singleton.           *)
(***************************************************************************)
EXTENDS Integers, Sequences, FiniteSets, TLC

(* ------------------------------ bounds -------------------------------- *)

\* The clock runs over 0..MaxTime hours.
MaxTime == 2

(* ------------------------- program constants -------------------------- *)

MIN_PNL_SHARP == 10000
MIN_ROI_SHARP == 10
MIN_VOLUME_SHARP == 50000
MIN_BET_ALERT == 5000
\* check_for_alerts: get_new_sharp_positions(hours=2)
ALERT_HOURS == 2
\* get_all_tracked_wallets: total_volume > 10000
TRACKED_VOLUME == 10000
\* needs_update(wallet_address, hours=6)
PROFILE_HOURS == 6
MAX_NEW_WALLETS_PER_SCAN == 10
\* os.getenv('SCAN_KNOWN_WHALES_ONLY', 'false')
SCAN_KNOWN_WHALES_ONLY == FALSE
\* scan_sports_markets: if profile and profile.total_pnl > 5000
POTENTIAL_WHALE_PNL == 5000
\* os.getenv('BATCH_SIZE', '10')
DEFAULT_BATCH_SIZE == 10

(* ------------------------------ values -------------------------------- *)

None == {}
Some(x) == {x}

Wallets == {"w1"}
Markets == {"m1", "m2"}
Times == 0..MaxTime

Abs(n) == IF n < 0 THEN -n ELSE n

RECURSIVE GCD(_, _)
GCD(a, b) == IF b = 0 THEN a ELSE GCD(b, a % b)

\* An exact quotient n/d (d > 0) in lowest terms: the value a float holds
\* for the money amounts of a profile, without its rounding.
Ratio(n, d) ==
    LET g == GCD(Abs(n), d)
    IN  [num |-> n \div g, den |-> d \div g]

\* r > k for a quotient r and an integer k.
RatioGt(r, k) == r.num > k * r.den

\* The roi without the test of volume.
ProfileRoi_unguarded(pnl, volume) == Ratio(pnl * 100, volume)

\* get_user_profile_data: roi = 0; if volume > 0: roi = (pnl / volume) * 100
ProfileRoi(pnl, volume) ==
    IF volume > 0 THEN Ratio(pnl * 100, volume) ELSE Ratio(0, 1)

(* ------------------------------ state --------------------------------- *)

VARIABLES
    \* polymarket_tracker.db: durable, kept across restarts
    bettors,            \* table bettors: a set of rows
    whale_sightings,    \* table whale_sightings: a set of rows
    alerts_sent,        \* table alerts_sent: a set of rows
    sighting_columns,   \* the columns ALTER TABLE has added to whale_sightings
    \* environment
    now,                \* datetime.utcnow(), in hours
    TWITTER_ENABLED,    \* os.getenv('TWITTER_ENABLED') as read at start-up
    twitter_bot,        \* PolymarketTracker.twitter_bot is not None
    BATCH_SIZE,         \* int(os.getenv('BATCH_SIZE', '10')) as read at start-up
    \* PolymarketTracker.run_cycle: volatile, lost on a restart
    pc,                 \* where the cycle stands
    todo,               \* what is left of the list the current loop walks
    target_wallets,     \* scan_sports_markets: the wallets looked for
    new_whales_checked, \* scan_leaderboard: profiles updated so far
    sent,               \* check_for_alerts: what post_alert returned
    \* a caller of DatabaseManager
    ret,                \* the last call: what, when, and what it returned
    \* history
    delivered,          \* pairs api.update_status has posted a status for
    redelivered,        \* pairs it has posted a status for more than once
    failed,             \* pairs whose latest api.update_status raised
    alerted_at_restart, \* the alerted pairs when the process last started
    market_log,         \* what each market of the running scan logged
    cycle_started,      \* the hour run_cycle was last entered
    profile_fetches     \* the wallets get_user_profile_data was called for
                        \* in the running scan_leaderboard, in order

store == <<bettors, whale_sightings, alerts_sent, sighting_columns>>
config == <<TWITTER_ENABLED, twitter_bot, BATCH_SIZE>>
cycle == <<pc, todo, target_wallets, new_whales_checked, sent>>
history == <<delivered, redelivered, failed, alerted_at_restart,
             market_log, cycle_started,
                   profile_fetches>>
vars == <<store, now, config, cycle, ret, history>>

(* ----------------------- DatabaseManager: rows ------------------------ *)

\* A BettorProfile (dataclass): what update_bettor is given.
BettorProfile(wallet, username, pnl, volume, markets, positions, roi, updated, rank) ==
    [wallet_address |-> wallet, username |-> username, total_pnl |-> pnl,
     total_volume |-> volume, markets_traded |-> markets,
     positions_value |-> positions, roi |-> roi, last_updated |-> updated,
     leaderboard_rank |-> rank]

\* is_sharp with the volume gate met at the threshold itself.
is_sharp_inclusive(bettor) ==
    /\ bettor.total_pnl > MIN_PNL_SHARP
    /\ RatioGt(bettor.roi, MIN_ROI_SHARP)
    /\ bettor.total_volume >= MIN_VOLUME_SHARP

\* update_bettor: the verdict stored in bettors.is_sharp.
is_sharp(bettor) ==
    /\ bettor.total_pnl > MIN_PNL_SHARP
    /\ RatioGt(bettor.roi, MIN_ROI_SHARP)
    /\ bettor.total_volume > MIN_VOLUME_SHARP

\* update_bettor leaving is_sharp out of the columns it writes: a wallet
\* that has a row keeps the flag of that row (a new one gets the DEFAULT 0).
update_bettor_keeping_flag(rows, bettor) ==
    LET old == {r \in rows : r.wallet_address = bettor.wallet_address}
    IN  (rows \ old)
            \cup {[wallet_address |-> bettor.wallet_address,
                   username |-> bettor.username,
                   total_pnl |-> bettor.total_pnl,
                   total_volume |-> bettor.total_volume,
                   markets_traded |-> bettor.markets_traded,
                   positions_value |-> bettor.positions_value,
                   roi |-> bettor.roi,
                   last_updated |-> bettor.last_updated,
                   is_sharp |-> IF old = {} THEN FALSE
                                ELSE (CHOOSE r \in old : TRUE).is_sharp,
                   leaderboard_rank |-> bettor.leaderboard_rank]}

\* update_bettor working roi out of total_pnl and total_volume itself.
update_bettor_recomputing_roi(rows, bettor) ==
    {r \in rows : r.wallet_address # bettor.wallet_address}
        \cup {[wallet_address |-> bettor.wallet_address,
               username |-> bettor.username,
               total_pnl |-> bettor.total_pnl,
               total_volume |-> bettor.total_volume,
               markets_traded |-> bettor.markets_traded,
               positions_value |-> bettor.positions_value,
               roi |-> ProfileRoi(bettor.total_pnl, bettor.total_volume),
               last_updated |-> bettor.last_updated,
               is_sharp |-> is_sharp(bettor),
               leaderboard_rank |-> bettor.leaderboard_rank]}

\* update_bettor writing COALESCE(new, old) for username and
\* leaderboard_rank: a null given keeps what the row had.
update_bettor_keeping_known(rows, bettor) ==
    LET old == {r \in rows : r.wallet_address = bettor.wallet_address}
        kept(field) == IF bettor[field] = None /\ old # {}
                       THEN (CHOOSE r \in old : TRUE)[field]
                       ELSE bettor[field]
    IN  (rows \ old)
            \cup {[wallet_address |-> bettor.wallet_address,
                   username |-> kept("username"),
                   total_pnl |-> bettor.total_pnl,
                   total_volume |-> bettor.total_volume,
                   markets_traded |-> bettor.markets_traded,
                   positions_value |-> bettor.positions_value,
                   roi |-> bettor.roi,
                   last_updated |-> bettor.last_updated,
                   is_sharp |-> is_sharp(bettor),
                   leaderboard_rank |-> kept("leaderboard_rank")]}

\* INSERT OR REPLACE INTO bettors: the row with the same primary key
\* (wallet_address) is deleted, the new row inserted.
update_bettor(rows, bettor) ==
    {r \in rows : r.wallet_address # bettor.wallet_address}
        \cup {[wallet_address |-> bettor.wallet_address,
               username |-> bettor.username,
               total_pnl |-> bettor.total_pnl,
               total_volume |-> bettor.total_volume,
               markets_traded |-> bettor.markets_traded,
               positions_value |-> bettor.positions_value,
               roi |-> bettor.roi,
               last_updated |-> bettor.last_updated,
               is_sharp |-> is_sharp(bettor),
               leaderboard_rank |-> bettor.leaderboard_rank]}

\* SELECT wallet_address FROM bettors WHERE is_sharp = 1
get_known_sharp_wallets(rows) ==
    {r.wallet_address : r \in {x \in rows : x.is_sharp}}

\* The query without its leaderboard_rank IS NOT NULL clause.
get_all_tracked_wallets_unranked(rows) ==
    {r.wallet_address : r \in {x \in rows :
        \/ x.total_volume > TRACKED_VOLUME
        \/ x.is_sharp}}

\* SELECT wallet_address FROM bettors WHERE total_volume > 10000
\*   OR leaderboard_rank IS NOT NULL OR is_sharp = 1
get_all_tracked_wallets(rows) ==
    {r.wallet_address : r \in {x \in rows :
        \/ x.total_volume > TRACKED_VOLUME
        \/ x.leaderboard_rank # None
        \/ x.is_sharp}}

\* COALESCE((SELECT first_seen FROM whale_sightings WHERE wallet_address = ?
\*           AND market_url = ?), ?)
coalesce_first_seen(rows, wallet, market, t) ==
    LET old == {r \in rows : r.wallet_address = wallet /\ r.market_url = market}
    IN  IF old = {} THEN t ELSE (CHOOSE r \in old : TRUE).first_seen

\* record_whale_sighting without the COALESCE: first_seen is the time of
\* the call.
record_whale_sighting_restamped(rows, wallet, market, category, side, question, t) ==
    {r \in rows : ~(r.wallet_address = wallet /\ r.market_url = market)}
        \cup {[wallet_address |-> wallet, market_url |-> market,
               market_category |-> category, side |-> side,
               market_question |-> question, first_seen |-> t,
               last_seen |-> t]}

\* record_whale_sighting on a table keyed by wallet_address alone: the
\* REPLACE removes the wallet's rows for other markets.
record_whale_sighting_keyed_by_wallet(rows, wallet, market, category, side, question, t) ==
    {r \in rows : r.wallet_address # wallet}
        \cup {[wallet_address |-> wallet, market_url |-> market,
               market_category |-> category, side |-> side,
               market_question |-> question,
               first_seen |-> coalesce_first_seen(rows, wallet, market, t),
               last_seen |-> t]}

\* record_whale_sighting keeping what a row already knows: a side of
\* UNKNOWN or a question of NULL does not replace a known one.
record_whale_sighting_keeping_known(rows, wallet, market, category, side, question, t) ==
    LET old == {r \in rows : r.wallet_address = wallet /\ r.market_url = market}
        known == IF old = {} THEN [side |-> side, market_question |-> question]
                 ELSE CHOOSE r \in old : TRUE
    IN  (rows \ old)
        \cup {[wallet_address |-> wallet, market_url |-> market,
               market_category |-> category,
               side |-> IF side = "UNKNOWN" THEN known.side ELSE side,
               market_question |-> IF question = None
                                   THEN known.market_question ELSE question,
               first_seen |-> coalesce_first_seen(rows, wallet, market, t),
               last_seen |-> t]}

\* INSERT OR REPLACE INTO whale_sightings: the row with the same primary key
\* (wallet_address, market_url) is deleted, the new row inserted.
record_whale_sighting(rows, wallet, market, category, side, question, t) ==
    {r \in rows : ~(r.wallet_address = wallet /\ r.market_url = market)}
        \cup {[wallet_address |-> wallet, market_url |-> market,
               market_category |-> category, side |-> side,
               market_question |-> question,
               first_seen |-> coalesce_first_seen(rows, wallet, market, t),
               last_seen |-> t]}

\* The query without its NOT EXISTS clause.
not_alerted_unchecked(alerts, ws) == TRUE

\* NOT EXISTS (SELECT 1 FROM alerts_sent a WHERE a.wallet_address =
\*             ws.wallet_address AND a.market_url = ws.market_url)
not_alerted(alerts, ws) ==
    ~\E a \in alerts : /\ a.wallet_address = ws.wallet_address
                       /\ a.market_url = ws.market_url

\* The query with positions_value > ? for its floor.
sharp_position_rows_above_floor(brows, srows, alerts, cutoff) ==
    {[wallet_address |-> ws.wallet_address, market_url |-> ws.market_url,
      market_category |-> ws.market_category, side |-> ws.side,
      market_question |-> ws.market_question, username |-> b.username,
      total_pnl |-> b.total_pnl, roi |-> b.roi,
      positions_value |-> b.positions_value, total_volume |-> b.total_volume,
      timestamp |-> ws.first_seen, leaderboard_rank |-> b.leaderboard_rank] :
        <<ws, b>> \in {j \in srows \X brows :
            /\ j[1].wallet_address = j[2].wallet_address
            /\ j[2].is_sharp
            /\ j[1].first_seen > cutoff
            /\ j[2].positions_value > MIN_BET_ALERT
            /\ not_alerted(alerts, j[1])}}

\* The query with ws.last_seen > ? for its window.
sharp_position_rows_by_last_seen(brows, srows, alerts, cutoff) ==
    {[wallet_address |-> ws.wallet_address, market_url |-> ws.market_url,
      market_category |-> ws.market_category, side |-> ws.side,
      market_question |-> ws.market_question, username |-> b.username,
      total_pnl |-> b.total_pnl, roi |-> b.roi,
      positions_value |-> b.positions_value, total_volume |-> b.total_volume,
      timestamp |-> ws.first_seen, leaderboard_rank |-> b.leaderboard_rank] :
        <<ws, b>> \in {j \in srows \X brows :
            /\ j[1].wallet_address = j[2].wallet_address
            /\ j[2].is_sharp
            /\ j[1].last_seen > cutoff
            /\ j[2].positions_value >= MIN_BET_ALERT
            /\ not_alerted(alerts, j[1])}}

\* get_new_sharp_positions: the rows of the SELECT DISTINCT ... JOIN, each a
\* position dict; cutoff is utcnow() - timedelta(hours).
sharp_position_rows(brows, srows, alerts, cutoff) ==
    {[wallet_address |-> ws.wallet_address, market_url |-> ws.market_url,
      market_category |-> ws.market_category, side |-> ws.side,
      market_question |-> ws.market_question, username |-> b.username,
      total_pnl |-> b.total_pnl, roi |-> b.roi,
      positions_value |-> b.positions_value, total_volume |-> b.total_volume,
      timestamp |-> ws.first_seen, leaderboard_rank |-> b.leaderboard_rank] :
        <<ws, b>> \in {j \in srows \X brows :
            /\ j[1].wallet_address = j[2].wallet_address
            /\ j[2].is_sharp
            /\ j[1].first_seen > cutoff
            /\ j[2].positions_value >= MIN_BET_ALERT
            /\ not_alerted(alerts, j[1])}}

\* The query without its ORDER BY: the rows in any order.
first_seen_unordered(seq) == TRUE

\* ORDER BY ws.first_seen DESC
first_seen_desc(seq) ==
    \A i, j \in 1..Len(seq) : i < j => seq[i].timestamp >= seq[j].timestamp

\* The lists made of the elements of S, each once.
RECURSIVE Orderings(_)
Orderings(S) ==
    IF S = {} THEN {<<>>}
    ELSE UNION {{<<x>> \o rest : rest \in Orderings(S \ {x})} : x \in S}

\* get_new_sharp_positions with hours left at its default of 1.
get_new_sharp_positions_default_hours(brows, srows, alerts, t, hours) ==
    {seq \in Orderings(sharp_position_rows(brows, srows, alerts, t - 1)) :
        first_seen_desc(seq)}

\* get_new_sharp_positions: the lists the query may return (SQL leaves the
\* order of rows with equal first_seen open).
get_new_sharp_positions(brows, srows, alerts, t, hours) ==
    {seq \in Orderings(sharp_position_rows(brows, srows, alerts, t - hours)) :
        first_seen_desc(seq)}

\* mark_alert_sent with INSERT OR REPLACE: the row of the pair is written
\* again.
mark_alert_sent_replacing(alerts, wallet, market, t) ==
    {a \in alerts : ~(a.wallet_address = wallet /\ a.market_url = market)}
        \cup {[id |-> Cardinality(alerts) + 1, wallet_address |-> wallet,
               market_url |-> market, alert_timestamp |-> t]}

\* INSERT OR IGNORE INTO alerts_sent: a row that would break
\* UNIQUE(wallet_address, market_url) is not inserted; id is AUTOINCREMENT.
mark_alert_sent(alerts, wallet, market, t) ==
    IF \E a \in alerts : a.wallet_address = wallet /\ a.market_url = market
    THEN alerts
    ELSE alerts \cup {[id |-> Cardinality(alerts) + 1, wallet_address |-> wallet,
                       market_url |-> market, alert_timestamp |-> t]}

\* needs_update answering True for every wallet.
needs_update_always(rows, wallet, t, hours) == TRUE

\* needs_update with >= for its comparison.
needs_update_inclusive(rows, wallet, t, hours) ==
    LET found == {r \in rows : r.wallet_address = wallet}
    IN  IF found = {} THEN TRUE
        ELSE t - (CHOOSE r \in found : TRUE).last_updated >= hours

\* needs_update: no row, or utcnow() - last_updated > timedelta(hours)
needs_update(rows, wallet, t, hours) ==
    LET found == {r \in rows : r.wallet_address = wallet}
    IN  IF found = {} THEN TRUE
        ELSE t - (CHOOSE r \in found : TRUE).last_updated > hours

\* The (wallet, market) keys of a table.
Keys(rows) == {<<r.wallet_address, r.market_url>> : r \in rows}

(* ------------------------- external collaborators --------------------- *)

\* get_leaderboard_whales: a list of (wallet, rank), rank the place in the
\* page; [] when the page cannot be read.
LeaderboardFeeds ==
    {[i \in 1..Len(o) |-> <<o[i], i>>] :
        o \in UNION {Orderings(S) : S \in SUBSET Wallets}}

\* What a profile page shows: the parsed Profit/loss, Volume traded,
\* Positions value and Markets traded, and the username found.
ScrapedPages ==
    {[pnl |-> 15000, volume |-> 60000, positions |-> 5000, markets |-> 12,
      username |-> Some("whale")],
     [pnl |-> 15000, volume |-> 60000, positions |-> 4000, markets |-> 12,
      username |-> None],
     [pnl |-> 15000, volume |-> 40000, positions |-> 5000, markets |-> 12,
      username |-> None]}

\* A leaderboard page with one trader more than MAX_NEW_WALLETS_PER_SCAN
\* (the scraper reads up to 50), its wallets named by their place.
LongLeaderboardFeeds ==
    {[i \in 1..(MAX_NEW_WALLETS_PER_SCAN + 1) |-> <<<<"top", i>>, i>>]}

\* One of the profile pages, for the wallets of the long leaderboard.
ReadablePages == {page \in ScrapedPages : page.username # None}

\* get_user_profile_data, a page read: the BettorProfile it builds.
get_user_profile_data(wallet, rank, page, t) ==
    BettorProfile(wallet, page.username, page.pnl, page.volume, page.markets,
                  page.positions, ProfileRoi(page.pnl, page.volume), t, rank)

\* get_sports_markets: a list of markets (their URLs); [] on any error.
MarketFeeds == UNION {Orderings(S) : S \in SUBSET Markets}

\* Feeds long enough to fill a batch and leave a partial one.
LongMarketFeeds == UNION {Orderings(S) : S \in SUBSET (Markets \cup {"m3"})}
\* The values BATCH_SIZE is set to in the environment.
MaxBatch == 3
BatchSizes == 1..MaxBatch

\* market.get('category', 'SPORTS')
Category(market) == IF market = "m1" THEN "NBA" ELSE "SPORTS"

\* The sides and the market question check_market_for_whales reads off a page.
ObservedSides == {"YES"}
ObservedQuestions == {Some("Will the Lakers beat the Celtics?")}

(* ------------------------------ start-up ------------------------------ *)

Started(size) ==
    /\ bettors = {}
    /\ whale_sightings = {}
    /\ alerts_sent = {}
    /\ sighting_columns = {}
    /\ now = 0
    /\ TWITTER_ENABLED \in BOOLEAN
    /\ twitter_bot \in BOOLEAN
    /\ pc = "idle"
    /\ todo = <<>>
    /\ target_wallets = {}
    /\ new_whales_checked = 0
    /\ sent = FALSE
    /\ ret = [op |-> "none", args |-> <<>>, at |-> 0, raised |-> FALSE,
              value |-> None]
    /\ delivered = {}
    /\ redelivered = {}
    /\ failed = {}
    /\ alerted_at_restart = {}
    /\ market_log = <<>>
    /\ cycle_started = None
    /\ profile_fetches = <<>>
    /\ BATCH_SIZE = size

\* The state main() leaves, BATCH_SIZE not set in the environment.
Init == Started(DEFAULT_BATCH_SIZE)

\* Time passes (every step of the cycle waits on a page or sleeps).
Tick ==
    /\ now < MaxTime
    /\ now' = now + 1
    /\ UNCHANGED <<store, config, cycle, ret, history>>

\* run_cycle without its try/except: what a stage raises leaves run_cycle
\* and main's loop with it, and only a cycle that returns comes to rest.
CycleEnds_uncaught ==
    /\ pc' = IF pc \in {"check_for_alerts", "sleep"} THEN "idle"
             ELSE "crashed"
    /\ todo' = <<>>
    /\ target_wallets' = {}
    /\ new_whales_checked' = 0
    /\ sent' = FALSE

\* The cycle's local state once it has ended.
CycleEnds ==
    /\ pc' = "idle"
    /\ todo' = <<>>
    /\ target_wallets' = {}
    /\ new_whales_checked' = 0
    /\ sent' = FALSE

\* A restart that opens a new database file: the alerts marked are lost.
RestartOnNewFile ==
    /\ alerted_at_restart' = Keys(alerts_sent)
    /\ alerts_sent' = {}
    /\ CycleEnds
    /\ TWITTER_ENABLED' \in BOOLEAN
    /\ twitter_bot' \in BOOLEAN
    /\ BATCH_SIZE' = BATCH_SIZE
    /\ UNCHANGED <<bettors, whale_sightings, sighting_columns, now, ret,
                   delivered, redelivered, failed, market_log,
                   cycle_started,
                   profile_fetches>>

\* The process stops and is started again: main() builds a new tracker over
\* the same database file and reads the environment again.
Restart ==
    /\ alerted_at_restart' = Keys(alerts_sent)
    /\ CycleEnds
    /\ TWITTER_ENABLED' \in BOOLEAN
    /\ twitter_bot' \in BOOLEAN
    /\ BATCH_SIZE' = BATCH_SIZE
    /\ UNCHANGED <<store, now, ret, delivered, redelivered, failed,
                   market_log, cycle_started,
                   profile_fetches>>

(* ------------------------------ run_cycle ----------------------------- *)

\* run_cycle with scan_sports_markets as its first call.
EnterCycle_markets_first ==
    /\ pc = "idle"
    /\ pc' = "scan_sports_markets"
    /\ UNCHANGED <<store, now, config, todo, target_wallets,
                   new_whales_checked, sent, ret>>

\* run_cycle started by a trigger whatever the tracker is doing, as a job
\* handed to a thread of its own would be.
EnterCycle_overlapping ==
    /\ pc' = "scan_leaderboard"
    /\ UNCHANGED <<store, now, config, todo, target_wallets,
                   new_whales_checked, sent, ret>>

\* asyncio.run(tracker.run_cycle()): main calls it and waits for it, for the
\* initial scan and from schedule.run_pending() alike.
EnterCycle ==
    /\ pc = "idle"
    /\ pc' = "scan_leaderboard"
    /\ UNCHANGED <<store, now, config, todo, target_wallets,
                   new_whales_checked, sent, ret>>

\* main: the initial scan, then schedule.every(30).minutes
RunCycle ==
    /\ EnterCycle
    /\ UNCHANGED history

\* RunCycle, with the hour of "Starting tracker cycle..." kept.
RunCycleTimed ==
    /\ EnterCycle
    /\ cycle_started' = Some(now)
    /\ UNCHANGED <<delivered, redelivered, failed, alerted_at_restart,
                   market_log, profile_fetches>>

\* scan_leaderboard up to its loop: the scraper starts and reads the
\* leaderboard, or fails to start (the error ends the cycle).
ReadLeaderboard(feeds) ==
    /\ pc = "scan_leaderboard"
    /\ \/ \E feed \in feeds :
            /\ todo' = feed
            /\ pc' = IF feed = <<>> THEN "scan_sports_markets"
                     ELSE "leaderboard_wallet"
            /\ UNCHANGED <<target_wallets, new_whales_checked, sent>>
       \/ CycleEnds
    /\ UNCHANGED <<store, now, config, ret>>

ScanLeaderboard ==
    /\ ReadLeaderboard(LeaderboardFeeds)
    /\ UNCHANGED history

\* scan_leaderboard fetching every stale wallet of the feed.
within_budget_always(checked) == TRUE

\* scan_leaderboard: ... and new_whales_checked < MAX_NEW_WALLETS_PER_SCAN
within_budget(checked) == checked < MAX_NEW_WALLETS_PER_SCAN

\* scan_leaderboard, one turn of its loop. fetched tells whether
\* get_user_profile_data was called for the wallet.
RefreshWallet(pages, fetched) ==
    /\ pc = "leaderboard_wallet"
    /\ LET wallet == Head(todo)[1]
           rank == Head(todo)[2]
           next == /\ todo' = Tail(todo)
                   /\ pc' = IF Tail(todo) = <<>> THEN "scan_sports_markets"
                            ELSE "leaderboard_wallet"
                   /\ IF Tail(todo) = <<>> THEN new_whales_checked' = 0
                      ELSE UNCHANGED new_whales_checked
                   /\ UNCHANGED <<target_wallets, sent>>
       IN  \/ /\ needs_update(bettors, wallet, now, PROFILE_HOURS)
              /\ within_budget(new_whales_checked)
              /\ fetched
              /\ \/ \E page \in pages :
                      /\ bettors' = update_bettor(bettors,
                            get_user_profile_data(wallet, Some(rank), page, now))
                      /\ todo' = Tail(todo)
                      /\ pc' = IF Tail(todo) = <<>> THEN "scan_sports_markets"
                               ELSE "leaderboard_wallet"
                      /\ new_whales_checked' =
                            IF Tail(todo) = <<>> THEN 0
                            ELSE new_whales_checked + 1
                      /\ UNCHANGED <<target_wallets, sent>>
                 \/ \* the page cannot be read: get_user_profile_data is None
                    /\ next
                    /\ UNCHANGED bettors
           \/ /\ ~(/\ needs_update(bettors, wallet, now, PROFILE_HOURS)
                   /\ within_budget(new_whales_checked))
              /\ ~fetched
              /\ next
              /\ UNCHANGED bettors
           \/ \* sqlite3 raises in needs_update (before any fetch) or in
              \* update_bettor (after it)
              /\ fetched => /\ needs_update(bettors, wallet, now, PROFILE_HOURS)
                            /\ within_budget(new_whales_checked)
              /\ CycleEnds
              /\ UNCHANGED bettors
    /\ UNCHANGED <<whale_sightings, alerts_sent, sighting_columns, now, config,
                   ret>>

LeaderboardWallet ==
    /\ \E fetched \in BOOLEAN : RefreshWallet(ScrapedPages, fetched)
    /\ UNCHANGED history

\* ALTER TABLE whale_sightings ADD COLUMN side / market_question
AddedColumns == {"side", "market_question"}

\* scan_sports_markets up to its loop: the market list is fetched and the
\* wallets to look for are read from the store.
ReadMarkets(feeds) ==
    /\ pc = "scan_sports_markets"
    /\ \/ \E markets \in feeds :
            LET targets == IF SCAN_KNOWN_WHALES_ONLY
                           THEN get_known_sharp_wallets(bettors)
                           ELSE get_all_tracked_wallets(bettors)
            IN  IF markets = <<>> \/ targets = {}
                THEN /\ pc' = "check_for_alerts"
                     /\ todo' = <<>>
                     /\ UNCHANGED target_wallets
                ELSE /\ pc' = "market"
                     /\ todo' = markets
                     /\ target_wallets' = targets
       \/ \* sqlite3 raises in get_all_tracked_wallets, or the scraper of the
          \* batch fails to start
          /\ pc' = "idle"
          /\ todo' = <<>>
          /\ UNCHANGED target_wallets
    /\ UNCHANGED <<store, now, config, new_whales_checked, sent, ret>>

StartMarkets == ReadMarkets(MarketFeeds)

ScanSportsMarkets ==
    /\ StartMarkets
    /\ UNCHANGED history

\* ScanSportsMarkets, with "Starting sports market scan..." starting the
\* log of the markets of this scan.
ScanSportsMarketsLogged ==
    /\ StartMarkets
    /\ market_log' = <<>>
    /\ UNCHANGED <<delivered, redelivered, failed, alerted_at_restart,
                   cycle_started,
                   profile_fetches>>

\* The sightings of one market page, recorded one after the other.
RECURSIVE record_found(_, _, _, _, _, _)
record_found(rows, found, market, sides, question, t) ==
    IF found = {} THEN rows
    ELSE LET wallet == CHOOSE w \in found : TRUE
         IN  record_found(
                record_whale_sighting(rows, wallet, market, Category(market),
                                      sides[wallet], question, t),
                found \ {wallet}, market, sides, question, t)

\* The profiles of the top holders of one market page, stored one after the
\* other: those with total_pnl > 5000, with no leaderboard rank.
RECURSIVE update_holders(_, _, _, _)
update_holders(rows, holders, pages, t) ==
    IF holders = {} THEN rows
    ELSE LET wallet == CHOOSE w \in holders : TRUE
             profile == get_user_profile_data(wallet, None, pages[wallet], t)
         IN  update_holders(
                IF profile.total_pnl > POTENTIAL_WHALE_PNL
                THEN update_bettor(rows, profile) ELSE rows,
                holders \ {wallet}, pages, t)

\* check_market_for_whales taking every profile link of the page.
found_whales_unfiltered(on_page, targets) == on_page

\* check_market_for_whales: the wallets of the page's profile links that
\* are in target_wallets.
found_whales(on_page, targets) == on_page \cap targets

\* One market of a batch with no try around it: an error leaves the scan.
ProcessMarket_uncaught(on_page, profile_pages, raised, recorded) ==
    /\ pc = "market"
    /\ LET market == Head(todo)
           found == found_whales(on_page, target_wallets)
       IN  \/ \* check_market_for_whales finds target wallets on the page; a
              \* sqlite3 error ends the market with the sightings so far
              \E sides \in [found -> ObservedSides] :
              \E question \in ObservedQuestions :
                /\ found # {}
                /\ recorded \subseteq found
                /\ whale_sightings' = record_found(whale_sightings, recorded,
                                        market, sides, question, now)
                /\ IF recorded = {}
                   THEN sighting_columns' \in {sighting_columns, AddedColumns}
                   ELSE sighting_columns' = AddedColumns
                /\ raised = (recorded # found)
                /\ UNCHANGED bettors
           \/ \* no target wallet found, or the page failed and
              \* check_market_for_whales returned []: the top holders that
              \* are not tracked and need an update are scraped, until
              \* sqlite3 raises if it does
              /\ ~SCAN_KNOWN_WHALES_ONLY
              /\ recorded = {}
              /\ found # {} => raised
              /\ \E holders \in SUBSET {w \in on_page \ target_wallets :
                        needs_update(bettors, w, now, PROFILE_HOURS)} :
                 \E pages \in [holders -> profile_pages] :
                    bettors' = update_holders(bettors, holders, pages, now)
              /\ UNCHANGED <<whale_sightings, sighting_columns>>
    /\ todo' = IF raised THEN <<>> ELSE Tail(todo)
    /\ pc' = IF raised THEN "idle"
             ELSE IF Tail(todo) = <<>> THEN "check_for_alerts" ELSE "market"
    /\ target_wallets' = IF raised \/ Tail(todo) = <<>> THEN {}
                         ELSE target_wallets
    /\ UNCHANGED <<alerts_sent, now, config, new_whales_checked, sent, ret>>

\* scan_sports_markets, one market of a batch: the body of the try and its
\* except/continue. raised tells whether a step of this market failed
\* ("Error checking market", "Error processing market"), recorded which
\* wallets' sightings were written; on_page are the wallets whose profile
\* links the market page shows, profile_pages what their profile pages may
\* show.
ProcessMarket(on_page, profile_pages, raised, recorded) ==
    /\ pc = "market"
    /\ LET market == Head(todo)
           found == found_whales(on_page, target_wallets)
       IN  \/ \* check_market_for_whales finds target wallets on the page; a
              \* sqlite3 error ends the market with the sightings so far
              \E sides \in [found -> ObservedSides] :
              \E question \in ObservedQuestions :
                /\ found # {}
                /\ recorded \subseteq found
                /\ whale_sightings' = record_found(whale_sightings, recorded,
                                        market, sides, question, now)
                /\ IF recorded = {}
                   THEN sighting_columns' \in {sighting_columns, AddedColumns}
                   ELSE sighting_columns' = AddedColumns
                /\ raised = (recorded # found)
                /\ UNCHANGED bettors
           \/ \* no target wallet found, or the page failed and
              \* check_market_for_whales returned []: the top holders that
              \* are not tracked and need an update are scraped, until
              \* sqlite3 raises if it does
              /\ ~SCAN_KNOWN_WHALES_ONLY
              /\ recorded = {}
              /\ found # {} => raised
              /\ \E holders \in SUBSET {w \in on_page \ target_wallets :
                        needs_update(bettors, w, now, PROFILE_HOURS)} :
                 \E pages \in [holders -> profile_pages] :
                    bettors' = update_holders(bettors, holders, pages, now)
              /\ UNCHANGED <<whale_sightings, sighting_columns>>
    /\ todo' = Tail(todo)
    /\ pc' = IF Tail(todo) = <<>> THEN "check_for_alerts" ELSE "market"
    /\ target_wallets' = IF Tail(todo) = <<>> THEN {} ELSE target_wallets
    /\ UNCHANGED <<alerts_sent, now, config, new_whales_checked, sent, ret>>

Market ==
    /\ \E on_page \in SUBSET Wallets :
       \E raised \in BOOLEAN : \E recorded \in SUBSET target_wallets :
          ProcessMarket(on_page, ScrapedPages, raised, recorded)
    /\ UNCHANGED history

\* Market, with what it logged.
MarketLogged ==
    /\ \E on_page \in SUBSET Wallets :
       \E raised \in BOOLEAN : \E recorded \in SUBSET target_wallets :
          /\ ProcessMarket(on_page, ScrapedPages, raised, recorded)
          /\ market_log' = Append(market_log,
                [market |-> Head(todo), raised |-> raised,
                 recorded |-> recorded])
    /\ UNCHANGED <<delivered, redelivered, failed, alerted_at_restart,
                   cycle_started,
                   profile_fetches>>

\* check_for_alerts without its 'if not self.twitter_bot: return'.
CheckForAlerts_unguarded ==
    /\ pc = "check_for_alerts"
    /\ \/ /\ ~(AddedColumns \subseteq sighting_columns)
          /\ CycleEnds
       \/ /\ AddedColumns \subseteq sighting_columns
          /\ \E new_positions \in get_new_sharp_positions(bettors,
                    whale_sightings, alerts_sent, now, ALERT_HOURS) :
                IF new_positions = <<>>
                THEN CycleEnds
                ELSE /\ pc' = "post_alert"
                     /\ todo' = new_positions
                     /\ UNCHANGED <<target_wallets, new_whales_checked, sent>>
    /\ UNCHANGED <<store, now, config, ret, history>>

\* check_for_alerts up to its loop.
CheckForAlerts ==
    /\ pc = "check_for_alerts"
    /\ \/ \* no notifier: return
          /\ ~twitter_bot
          /\ CycleEnds
       \/ \* the query names ws.side and ws.market_question: sqlite3 raises
          \* while no sighting has added the columns
          /\ twitter_bot
          /\ ~(AddedColumns \subseteq sighting_columns)
          /\ CycleEnds
       \/ /\ twitter_bot
          /\ AddedColumns \subseteq sighting_columns
          /\ \E new_positions \in get_new_sharp_positions(bettors,
                    whale_sightings, alerts_sent, now, ALERT_HOURS) :
                IF new_positions = <<>>
                THEN CycleEnds
                ELSE /\ pc' = "post_alert"
                     /\ todo' = new_positions
                     /\ UNCHANGED <<target_wallets, new_whales_checked, sent>>
       \/ \* sqlite3 raises in get_new_sharp_positions
          /\ twitter_bot
          /\ CycleEnds
    /\ UNCHANGED <<store, now, config, ret, history>>

PairOf(position) == <<position.wallet_address, position.market_url>>

\* post_alert returning True whatever api.update_status did.
post_alert_swallowing(enabled, posted) == TRUE

\* post_alert: what it returns, given whether api.update_status went through.
post_alert(enabled, posted) == IF enabled THEN posted ELSE TRUE

\* check_for_alerts marking the pair whatever post_alert returned.
after_post_alert_unconditional(result) == "mark_alert_sent"

\* check_for_alerts calling post_alert again at once when it returned False.
after_post_alert_without_delay(result) ==
    IF result THEN "mark_alert_sent" ELSE "post_alert"

\* check_for_alerts: if self.twitter_bot.post_alert(position): mark_alert_sent
after_post_alert(result) == IF result THEN "mark_alert_sent" ELSE "sleep"

\* check_for_alerts, one turn of its loop: the call of post_alert, which
\* posts the status (posted) or fails to when TWITTER_ENABLED.
CallPostAlert(posted) ==
    /\ pc = "post_alert"
    /\ sent' = post_alert(TWITTER_ENABLED, posted)
    /\ pc' = after_post_alert(sent')
    /\ IF TWITTER_ENABLED /\ posted
       THEN /\ delivered' = delivered \cup {PairOf(Head(todo))}
            /\ redelivered' = redelivered \cup ({PairOf(Head(todo))} \cap delivered)
       ELSE UNCHANGED <<delivered, redelivered>>
    /\ UNCHANGED <<store, now, config, todo, target_wallets,
                   new_whales_checked, ret, alerted_at_restart, market_log,
                   cycle_started,
                   profile_fetches>>

PostAlert ==
    \E posted \in BOOLEAN :
        /\ CallPostAlert(posted)
        /\ UNCHANGED failed

\* PostAlert, with the pairs whose latest post failed kept in failed.
PostAlertNoted ==
    \E posted \in BOOLEAN :
        /\ CallPostAlert(posted)
        /\ failed' = IF TWITTER_ENABLED /\ ~posted
                      THEN failed \cup {PairOf(Head(todo))}
                      ELSE failed \ {PairOf(Head(todo))}

\* mark_alert_sent inside a try of its own: a sqlite3 error is passed over
\* and the loop goes on.
MarkAlertSent_caught ==
    /\ pc = "mark_alert_sent"
    /\ \/ alerts_sent' = mark_alert_sent(alerts_sent,
                Head(todo).wallet_address, Head(todo).market_url, now)
       \/ UNCHANGED alerts_sent
    /\ pc' = "sleep"
    /\ UNCHANGED <<todo, target_wallets, new_whales_checked, sent>>
    /\ UNCHANGED <<bettors, whale_sightings, sighting_columns, now, config,
                   ret, history>>

\* check_for_alerts, one turn of its loop: mark_alert_sent after a post.
MarkAlertSent ==
    /\ pc = "mark_alert_sent"
    /\ \/ /\ alerts_sent' = mark_alert_sent(alerts_sent,
                Head(todo).wallet_address, Head(todo).market_url, now)
          /\ pc' = "sleep"
          /\ UNCHANGED <<todo, target_wallets, new_whales_checked, sent>>
       \/ \* sqlite3 raises: the error leaves check_for_alerts
          /\ CycleEnds
          /\ UNCHANGED alerts_sent
    /\ UNCHANGED <<bettors, whale_sightings, sighting_columns, now, config,
                   ret, history>>

\* check_for_alerts, one turn of its loop: time.sleep(5), then the next.
Sleep ==
    /\ pc = "sleep"
    /\ IF Tail(todo) = <<>>
       THEN CycleEnds
       ELSE /\ pc' = "post_alert"
            /\ todo' = Tail(todo)
            /\ sent' = FALSE
            /\ UNCHANGED <<target_wallets, new_whales_checked>>
    /\ UNCHANGED <<store, now, config, ret, history>>

\* Every step of the cycle but the call of post_alert.
CycleStep ==
    \/ RunCycle
    \/ ScanLeaderboard
    \/ LeaderboardWallet
    \/ ScanSportsMarkets
    \/ Market
    \/ CheckForAlerts
    \/ MarkAlertSent
    \/ Sleep

Next == Tick \/ CycleStep \/ PostAlert

\* The tracker, run by main() and never stopped.
Spec == Init /\ [][Next]_vars

NextNoted == Tick \/ CycleStep \/ PostAlertNoted

\* The same, with the failed posts noted.
SpecNoted == Init /\ [][NextNoted]_vars

NextRestart == Tick \/ CycleStep \/ PostAlert \/ Restart

\* The tracker stopped and started again at any moment.
SpecRestart == Init /\ [][NextRestart]_vars

\* A wallet market pages list among their top holders, and its profile
\* page: one that scan_sports_markets stores (total_pnl > 5000) and that
\* get_all_tracked_wallets does not return (total_volume <= 10000).
TopHolders == {"w2"}
HolderPages ==
    {[pnl |-> 6000, volume |-> 8000, positions |-> 0, markets |-> 3,
      username |-> None]}

\* Market, on pages that list the top holders.
MarketWithHolders ==
    /\ \E on_page \in SUBSET (Wallets \cup TopHolders) :
       \E raised \in BOOLEAN : \E recorded \in SUBSET target_wallets :
          ProcessMarket(on_page, HolderPages, raised, recorded)
    /\ UNCHANGED history

\* The tracker at rest for the hours of a profile's life.
Wait ==
    /\ pc = "idle"
    /\ now <= MaxTime
    /\ now' = now + PROFILE_HOURS
    /\ UNCHANGED <<store, config, cycle, ret, history>>

\* PolymarketTracker.__init__ with no Twitter credentials.
InitNoNotifier == Init /\ twitter_bot = FALSE

NextStale ==
    \/ Tick
    \/ Wait
    \/ RunCycle
    \/ ScanLeaderboard
    \/ LeaderboardWallet
    \/ ScanSportsMarkets
    \/ MarketWithHolders
    \/ CheckForAlerts

\* The tracker with no notifier, over the hours in which profiles go stale.
SpecStale == InitNoNotifier /\ [][NextStale]_vars

\* Market, on pages that show tracked wallets and top holders, logging the
\* wallets the page showed.
MarketObserved ==
    /\ \E on_page \in SUBSET (Wallets \cup TopHolders) :
       \E raised \in BOOLEAN : \E recorded \in SUBSET on_page :
          /\ ProcessMarket(on_page, ReadablePages, raised, recorded)
          /\ market_log' = Append(market_log,
                [market |-> Head(todo), raised |-> raised,
                 recorded |-> recorded, observed |-> on_page])
    /\ UNCHANGED <<delivered, redelivered, failed, alerted_at_restart,
                   cycle_started, profile_fetches>>

NextIngest ==
    \/ RunCycle
    \/ ScanLeaderboard
    \/ LeaderboardWallet
    \/ ScanSportsMarketsLogged
    \/ MarketObserved
    \/ CheckForAlerts

\* The tracker with no notifier, within the hour it started, with what each
\* market page showed.
SpecIngest == InitNoNotifier /\ [][NextIngest]_vars

NextMarkets ==
    \/ Tick
    \/ RunCycle
    \/ ScanLeaderboard
    \/ LeaderboardWallet
    \/ ScanSportsMarketsLogged
    \/ MarketLogged
    \/ CheckForAlerts
    \/ PostAlert
    \/ MarkAlertSent
    \/ Sleep

\* The tracker, with the markets that logged an error in the running scan.
SpecMarkets == Init /\ [][NextMarkets]_vars

NextTimed ==
    \/ Tick
    \/ RunCycleTimed
    \/ ScanLeaderboard
    \/ LeaderboardWallet
    \/ ScanSportsMarkets
    \/ Market
    \/ CheckForAlerts
    \/ PostAlert
    \/ MarkAlertSent
    \/ Sleep

\* The tracker, with the hour each cycle was entered.
SpecTimed == Init /\ [][NextTimed]_vars

(* -------------------- DatabaseManager, called directly ---------------- *)

\* What a caller of the store (a test, utils.py) passes in.
CallerWallets == {"w1", "w2"}
CallerMarkets == {"m1"}
CallerPairs == CallerWallets \X CallerMarkets
CallerSides == {"YES", "UNKNOWN"}
CallerQuestions == {None, Some("Will the Lakers beat the Celtics?")}
CallerHours == 1..(MaxTime + 1)

\* The store as init_database leaves a new file, and a caller at rest.
InitDb ==
    /\ Init
    /\ TWITTER_ENABLED = FALSE
    /\ twitter_bot = FALSE

\* A call that returned value, and one that raised error.
Returned(op, args, value) ==
    [op |-> op, args |-> args, at |-> now, raised |-> FALSE, value |-> value]
Raised(op, args, error) ==
    [op |-> op, args |-> args, at |-> now, raised |-> TRUE, value |-> error]

\* db.update_bettor(bettor), for a bettor out of profiles
CallUpdateBettor(profiles) ==
    /\ \E bettor \in profiles :
        /\ bettors' = update_bettor(bettors, bettor)
        /\ ret' = Returned("update_bettor", bettor, None)
    /\ UNCHANGED <<whale_sightings, alerts_sent, sighting_columns, now, config,
                   cycle, history>>

\* db.record_whale_sighting(wallet, market_url, category, side, question)
CallRecordWhaleSighting(pairs, sides, questions) ==
    /\ \E pair \in pairs, side \in sides, question \in questions :
        /\ whale_sightings' = record_whale_sighting(whale_sightings, pair[1],
                pair[2], Category(pair[2]), side, question, now)
        /\ ret' = Returned("record_whale_sighting", pair, None)
                    @@ [side |-> side, question |-> question]
    /\ sighting_columns' = AddedColumns
    /\ UNCHANGED <<bettors, alerts_sent, now, config, cycle, history>>

\* mark_alert_sent for every position of a list.
RECURSIVE mark_all(_, _, _)
mark_all(alerts, positions, t) ==
    IF positions = <<>> THEN alerts
    ELSE mark_all(mark_alert_sent(alerts, Head(positions).wallet_address,
                                  Head(positions).market_url, t),
                  Tail(positions), t)

\* get_new_sharp_positions marking what it returns as alerted.
CallGetNewSharpPositions_marking ==
    /\ AddedColumns \subseteq sighting_columns
    /\ \E hours \in CallerHours :
        \E result \in get_new_sharp_positions(bettors, whale_sightings,
                                alerts_sent, now, hours) :
            /\ ret' = Returned("get_new_sharp_positions", hours, result)
            /\ alerts_sent' = mark_all(alerts_sent, result, now)
    /\ UNCHANGED <<bettors, whale_sightings, sighting_columns, now, config,
                   cycle, history>>

\* db.get_new_sharp_positions(hours)
CallGetNewSharpPositions ==
    /\ \E hours \in CallerHours :
        IF AddedColumns \subseteq sighting_columns
        THEN \E result \in get_new_sharp_positions(bettors, whale_sightings,
                                alerts_sent, now, hours) :
                ret' = Returned("get_new_sharp_positions", hours, result)
        ELSE ret' = Raised("get_new_sharp_positions", hours,
                           "OperationalError")
    /\ UNCHANGED <<store, now, config, cycle, history>>

\* mark_alert_sent returning cursor.rowcount > 0.
mark_alert_sent_result_rowcount(alerts, wallet, market) ==
    Some(~\E a \in alerts : a.wallet_address = wallet /\ a.market_url = market)

\* mark_alert_sent has no return statement.
mark_alert_sent_result(alerts, wallet, market) == None

\* db.mark_alert_sent(wallet, market_url)
CallMarkAlertSent(pairs) ==
    /\ \E pair \in pairs :
        /\ alerts_sent' = mark_alert_sent(alerts_sent, pair[1], pair[2], now)
        /\ ret' = Returned("mark_alert_sent", pair,
                    mark_alert_sent_result(alerts_sent, pair[1], pair[2]))
    /\ UNCHANGED <<bettors, whale_sightings, sighting_columns, now, config,
                   cycle, history>>

\* The two ledgers under any calls: sightings recorded and alerts marked.
\* ScanLeaderboard on the long leaderboard, starting the list of fetches.
ScanLeaderboardCounted ==
    /\ ReadLeaderboard(LongLeaderboardFeeds)
    /\ profile_fetches' = <<>>
    /\ UNCHANGED <<delivered, redelivered, failed, alerted_at_restart,
                   market_log, cycle_started>>

\* LeaderboardWallet, with the wallet added to the fetches when
\* get_user_profile_data was called for it.
LeaderboardWalletCounted ==
    /\ \E fetched \in BOOLEAN :
          /\ RefreshWallet(ReadablePages, fetched)
          /\ profile_fetches' = IF fetched
                                THEN Append(profile_fetches, Head(todo)[1])
                                ELSE profile_fetches
    /\ UNCHANGED <<delivered, redelivered, failed, alerted_at_restart,
                   market_log, cycle_started>>

NextRefresh ==
    \/ RunCycle
    \/ ScanLeaderboardCounted
    \/ LeaderboardWalletCounted

\* run_cycle up to the end of scan_leaderboard, on the long leaderboard.
SpecRefresh == InitDb /\ [][NextRefresh]_vars

\* scan_sports_markets up to its loop, on a long feed.
ScanSportsMarketsBatched ==
    /\ ReadMarkets(LongMarketFeeds)
    /\ market_log' = <<>>
    /\ UNCHANGED <<delivered, redelivered, failed, alerted_at_restart,
                   cycle_started, profile_fetches>>

\* for batch_start in range(0, len(markets), BATCH_SIZE): the market the loop
\* stands at (as many markets as are logged lie behind it) opens a batch.
AtBatchStart == Len(market_log) % BATCH_SIZE = 0

\* with PolymarketScraper(headless=True) as scraper, for a batch after the
\* first: webdriver.Chrome fails twice in __enter__, which is outside the try
\* of the markets, and the error leaves scan_sports_markets for run_cycle.
BatchScraperFails ==
    /\ pc = "market"
    /\ market_log # <<>>
    /\ AtBatchStart
    /\ CycleEnds
    /\ UNCHANGED <<store, now, config, ret, history>>

\* The tracker as started with BATCH_SIZE set in the environment.
InitBatches ==
    \E size \in BatchSizes :
        /\ Started(size)
        /\ TWITTER_ENABLED = FALSE
        /\ twitter_bot = FALSE

NextBatches ==
    \/ RunCycle
    \/ ScanLeaderboard
    \/ LeaderboardWallet
    \/ ScanSportsMarketsBatched
    \/ MarketLogged
    \/ BatchScraperFails
    \/ CheckForAlerts

\* The tracker without a notifier, on feeds of several batches.
SpecBatches == InitBatches /\ [][NextBatches]_vars

NextLedgers ==
    \/ Tick
    \/ CallRecordWhaleSighting(CallerPairs, CallerSides, CallerQuestions)
    \/ CallMarkAlertSent(CallerPairs)

SpecLedgers == InitDb /\ [][NextLedgers]_vars

\* The profiles a caller may hand to update_bettor: a BettorProfile holds
\* whatever its fields were given, roi included, and a last_updated that may
\* lie PROFILE_HOURS before the clock starts.
CallerProfiles ==
    {BettorProfile(w, None, pnl, volume, 12, 5000, Ratio(roi, 1), t, None) :
        w \in {"w1"}, pnl \in {10000, 15000},
        volume \in {10000, 40000, 50000, 60000}, roi \in {10, 12},
        t \in Times \cup {0 - PROFILE_HOURS}}

\* What a profile page may show besides: no "Volume traded" to parse
\* (parse_money of the default '0').
ParsedPages ==
    ScrapedPages \cup
        {[pnl |-> 15000, volume |-> 0, positions |-> 5000, markets |-> 12,
          username |-> None]}

\* The profiles get_user_profile_data builds of these pages, at this hour.
BuiltProfiles ==
    {get_user_profile_data(w, rank, page, now) :
        w \in {"w1"}, rank \in {None, Some(1)}, page \in ParsedPages}

\* The hours a caller passes to needs_update: none (the default), or one.
CallerAges == {PROFILE_HOURS, 1}

\* db.needs_update(wallet_address, hours)
CallNeedsUpdate ==
    /\ \E wallet \in CallerWallets, hours \in CallerAges :
        ret' = Returned("needs_update", <<wallet, hours>>,
                        needs_update(bettors, wallet, now, hours))
    /\ UNCHANGED <<store, now, config, cycle, history>>

\* db.get_all_tracked_wallets()
CallGetAllTrackedWallets ==
    /\ ret' = Returned("get_all_tracked_wallets", <<>>,
                       get_all_tracked_wallets(bettors))
    /\ UNCHANGED <<store, now, config, cycle, history>>

\* The profile store under any calls.
NextProfiles ==
    \/ Tick
    \/ CallUpdateBettor(CallerProfiles \cup BuiltProfiles)
    \/ CallNeedsUpdate
    \/ CallGetAllTrackedWallets

SpecProfiles == InitDb /\ [][NextProfiles]_vars

\* The profiles the scraper builds of the pages it can read, at this hour;
\* the second wallet has no page, so its sightings never find a profile.
ScrapedProfiles ==
    {get_user_profile_data(w, None, page, now) :
        w \in {"w1"}, page \in ScrapedPages}

\* The profiles of two wallets, with and without a username and a rank,
\* built now or PROFILE_HOURS before the clock starts.
UpsertProfiles ==
    {BettorProfile(w, username, pnl, 60000, 12, 5000,
                   ProfileRoi(pnl, 60000), t, rank) :
        w \in CallerWallets, username \in {None, Some("whale")},
        pnl \in {6000, 15000}, t \in {now, 0 - PROFILE_HOURS},
        rank \in {None, Some(1)}}

\* Profiles replaced while the ledgers fill.
NextUpsert ==
    \/ CallUpdateBettor(UpsertProfiles)
    \/ CallRecordWhaleSighting(CallerPairs, {"YES"}, {None})
    \/ CallMarkAlertSent(CallerPairs)

SpecUpsert == InitDb /\ [][NextUpsert]_vars

\* db.record_whale_sighting by one of several writers on the same database
\* file (two trackers, a tracker and a script): the writer built the
\* parameters of its INSERT OR REPLACE, datetime.utcnow() among them, at hour
\* taken, and the statement runs now, after the statements of the writers
\* that got to the file before it. Building the parameters changes nothing
\* the others see, so only the statement is a step.
CallRecordWhaleSightingLate(pairs) ==
    /\ \E pair \in pairs, taken \in 0..now :
        /\ whale_sightings' = record_whale_sighting(whale_sightings, pair[1],
                pair[2], Category(pair[2]), "YES", None, taken)
        /\ ret' = [op |-> "record_whale_sighting", args |-> pair,
                   at |-> taken, raised |-> FALSE, value |-> None]
    /\ sighting_columns' = AddedColumns
    /\ UNCHANGED <<bettors, alerts_sent, now, config, cycle, history>>

\* The sighting ledger under writers that interleave.
NextWriters ==
    \/ Tick
    \/ CallRecordWhaleSightingLate(CallerPairs)
    \/ CallMarkAlertSent(CallerPairs)

SpecWriters == InitDb /\ [][NextWriters]_vars

\* The whole store under any calls.
NextDb ==
    \/ Tick
    \/ CallUpdateBettor(ScrapedProfiles)
    \/ CallRecordWhaleSighting(CallerPairs, {"YES"}, {None})
    \/ CallGetNewSharpPositions
    \/ CallMarkAlertSent(CallerPairs)

SpecDb == InitDb /\ [][NextDb]_vars

(* ------------------------------ properties ---------------------------- *)

SightingsOf(rows, pair) ==
    {r \in rows : r.wallet_address = pair[1] /\ r.market_url = pair[2]}

AlertsOf(rows, pair) ==
    {a \in rows : a.wallet_address = pair[1] /\ a.market_url = pair[2]}

ProfilesOf(rows, wallet) == {b \in rows : b.wallet_address = wallet}

\* C1: whatever record_whale_sighting calls are made, on this pair and on
\* others, with any side and question: a pair never has more than one row;
\* the row the first call for a pair writes has first_seen at the time of
\* that call; and a pair that has a row keeps one row, with the same
\* first_seen, through every later call.
C1_FirstSeenIsFirstCall ==
    [][\A pair \in CallerPairs :
        LET old == SightingsOf(whale_sightings, pair)
            new == SightingsOf(whale_sightings', pair)
        IN  /\ Cardinality(new) <= 1
            /\ (old = {} /\ new # {}) =>
                    \A r \in new : r.first_seen = now /\ r.last_seen = now
            /\ old # {} =>
                    /\ Cardinality(new) = 1
                    /\ \A r \in old, q \in new : q.first_seen = r.first_seen]_vars

\* C1, its case: the last call was a repeated one for a pair first seen
\* earlier, made with another side and question than a row still has to
\* show, while the other pair has been seen since.
C1_Witness ==
    /\ ret.op = "record_whale_sighting"
    /\ \E r \in SightingsOf(whale_sightings, ret.args) :
        /\ r.first_seen < ret.at
        /\ r.last_seen = ret.at
        /\ r.side = "UNKNOWN"
        /\ r.market_question = None
    /\ \E pair \in CallerPairs \ {ret.args} :
        \E r \in SightingsOf(whale_sightings, pair) :
            r.first_seen > 0 /\ r.side = "YES"

\* C7: whatever mark_alert_sent calls are made, a pair never has more than
\* one row in alerts_sent, and the row a pair has (its id and its
\* alert_timestamp, as the first call wrote them) is the row it keeps.
C7_MarkIdempotent ==
    [][\A pair \in CallerPairs :
        LET old == AlertsOf(alerts_sent, pair)
            new == AlertsOf(alerts_sent', pair)
        IN  /\ Cardinality(new) <= 1
            /\ (old = {} /\ new # {}) =>
                    \A a \in new : a.alert_timestamp = now
            /\ old # {} => new = old]_vars

\* C7, its case: the last call was mark_alert_sent for a pair marked at an
\* earlier hour, and the row still carries the earlier hour.
C7_Witness ==
    /\ ret.op = "mark_alert_sent"
    /\ \E a \in AlertsOf(alerts_sent, ret.args) : a.alert_timestamp < ret.at

\* C8 as stated: mark_alert_sent returns True when it inserted the row and
\* False when the pair had one already.
C8_ReturnsWhetherInserted ==
    [][(ret' # ret /\ ret'.op = "mark_alert_sent") =>
        ret'.value = Some(ret'.args \notin Keys(alerts_sent))]_vars

\* C8, amended: mark_alert_sent returns None on every call, the first for a
\* pair and the later ones alike; whether it inserted shows in alerts_sent
\* only.
C8_ReturnsNone ==
    [][(ret' # ret /\ ret'.op = "mark_alert_sent") =>
        /\ ~ret'.raised
        /\ ret'.value = None
        /\ ret'.args \in Keys(alerts_sent')]_vars

\* C8, its case: after a first call for each pair, the last call was a
\* replayed one for the pair marked first, and it returned None.
C8_Witness ==
    /\ ret.op = "mark_alert_sent"
    /\ ret.value = None
    /\ \E a \in AlertsOf(alerts_sent, ret.args) :
        a.alert_timestamp < ret.at /\ a.id = 1
    /\ \E a \in alerts_sent : a.alert_timestamp = ret.at /\ a.id = 2

\* C10: the is_sharp stored with a profile is true exactly when
\* total_pnl > 10000 and roi > 10 and total_volume > 50000, so equality on
\* a gate gives false; (15000, 12, 60000) is sharp, (15000, 12, 40000) not.
C10_StrictThreeGates ==
    /\ \A b \in bettors :
        b.is_sharp <=> (/\ b.total_pnl > 10000
                        /\ b.roi.num > 10 * b.roi.den
                        /\ b.total_volume > 50000)
    /\ \A b \in bettors :
        (b.total_pnl = 15000 /\ b.roi = Ratio(12, 1)) =>
            /\ b.total_volume = 60000 => b.is_sharp
            /\ b.total_volume = 40000 => ~b.is_sharp
    /\ \A p \in CallerProfiles :
        (\/ p.total_pnl = MIN_PNL_SHARP
         \/ p.roi = Ratio(MIN_ROI_SHARP, 1)
         \/ p.total_volume = MIN_VOLUME_SHARP) => ~is_sharp(p)

\* C10, its case: a profile with only its volume at the threshold is stored
\* as not sharp.
C10_Witness ==
    \E b \in bettors :
        /\ b.total_pnl = 15000
        /\ b.roi = Ratio(12, 1)
        /\ b.total_volume = MIN_VOLUME_SHARP
        /\ ~b.is_sharp

\* The pairs of a list of positions.
SelectedPairs(seq) == {PairOf(seq[i]) : i \in 1..Len(seq)}

\* The lists get_new_sharp_positions(hours) may return in this state.
Selections(hours) ==
    get_new_sharp_positions(bettors, whale_sightings, alerts_sent, now, hours)

\* The pair has a sighting first seen within the last hours, of a wallet
\* whose stored profile is sharp and holds positions worth MIN_BET_ALERT.
Eligible(pair, hours) ==
    \E r \in SightingsOf(whale_sightings, pair) :
    \E b \in ProfilesOf(bettors, pair[1]) :
        /\ b.is_sharp
        /\ r.first_seen > now - hours
        /\ b.positions_value >= MIN_BET_ALERT

\* C2 as stated: no pair has a status posted for it more than once, and no
\* post_alert is called for a pair that alerts_sent holds.
C2_AtMostOnce ==
    /\ redelivered = {}
    /\ pc = "post_alert" => PairOf(Head(todo)) \notin Keys(alerts_sent)

\* C3: in every state, for every hours, no list get_new_sharp_positions may
\* return holds a pair that alerts_sent holds.
C3_SelectSkipsAlerted ==
    \A hours \in CallerHours \cup {ALERT_HOURS} :
        \A seq \in Selections(hours) :
            SelectedPairs(seq) \cap Keys(alerts_sent) = {}

\* C3, its case: an alerted pair still meets every other condition of the
\* query, which returns the other pair alone.
C3_Witness ==
    /\ \E pair \in Keys(alerts_sent) : Eligible(pair, ALERT_HOURS)
    /\ \E seq \in Selections(ALERT_HOURS) : Len(seq) = 1

\* C4: the pairs alerts_sent held when the process last started are still
\* in it, no list the query may return holds one of them, and neither does
\* the list check_for_alerts is walking.
C4_DedupSurvivesRestart ==
    /\ alerted_at_restart \subseteq Keys(alerts_sent)
    /\ \A seq \in Selections(ALERT_HOURS) :
        SelectedPairs(seq) \cap alerted_at_restart = {}
    /\ pc \in {"post_alert", "mark_alert_sent", "sleep"} =>
        SelectedPairs(todo) \cap alerted_at_restart = {}

\* C4, its case: since the restart a pair alerted before it has been sighted
\* again and meets every other condition of the query, and the cycle is
\* dispatching what the query returned.
C4_Witness ==
    /\ pc = "post_alert"
    /\ \E pair \in alerted_at_restart :
        /\ Eligible(pair, ALERT_HOURS)
        /\ \E r \in SightingsOf(whale_sightings, pair) :
           \E a \in AlertsOf(alerts_sent, pair) :
                r.last_seen > a.alert_timestamp

\* C5 as stated: a pair whose post failed is not in alerts_sent, and the
\* query of the next cycle returns it.
C5_RetriedNextCycle ==
    \A pair \in failed :
        /\ pair \notin Keys(alerts_sent)
        /\ (pc = "check_for_alerts" /\ twitter_bot) =>
            \A seq \in Selections(ALERT_HOURS) : pair \in SelectedPairs(seq)

\* C5, amended: a pair whose post failed is not in alerts_sent, and the
\* query returns it for as long as (and only while) its sighting was first
\* seen within the last 2 hours and its wallet's profile is still sharp with
\* positions worth MIN_BET_ALERT.
C5_RetriedWhileEligible ==
    \A pair \in failed :
        /\ pair \notin Keys(alerts_sent)
        /\ \A seq \in Selections(ALERT_HOURS) :
            pair \in SelectedPairs(seq) <=> Eligible(pair, ALERT_HOURS)

\* C5, its case: a later cycle is about to select while a pair whose post
\* failed is still eligible, and another whose post failed no longer is.
C5_Witness ==
    /\ pc = "check_for_alerts"
    /\ twitter_bot
    /\ \E pair \in failed : Eligible(pair, ALERT_HOURS)
    /\ \E pair \in failed : ~Eligible(pair, ALERT_HOURS)

\* C6 as stated: every pair of alerts_sent has had a status posted for it.
C6_OnlyAfterDelivery == Keys(alerts_sent) \subseteq delivered

\* C6, amended: a row enters alerts_sent only in the step after post_alert
\* returned True for its pair (with TWITTER_ENABLED that is after the status
\* was posted; without, nothing was posted), and no row of alerts_sent is
\* ever changed or removed.
C6_OnlyAfterPostAlertTrue ==
    [][/\ alerts_sent \subseteq alerts_sent'
       /\ alerts_sent' # alerts_sent =>
            /\ pc = "mark_alert_sent"
            /\ sent
            /\ Keys(alerts_sent') =
                    Keys(alerts_sent) \cup {PairOf(Head(todo))}
            /\ TWITTER_ENABLED => PairOf(Head(todo)) \in delivered]_vars

\* C6, its case: with posting disabled two pairs have been marked, the
\* second at a later hour, and no status has been posted.
C6_Witness ==
    /\ ~TWITTER_ENABLED
    /\ delivered = {}
    /\ \E a, b \in alerts_sent : a.alert_timestamp < b.alert_timestamp

\* A pair sighted, its wallet's profile then stored as sharp, the pair then
\* sighted again.
Scenario(pair) ==
    \E r \in SightingsOf(whale_sightings, pair) :
    \E b \in ProfilesOf(bettors, pair[1]) :
        /\ r.first_seen < b.last_updated
        /\ b.last_updated < r.last_seen
        /\ b.is_sharp

\* How often the pair occurs in a list of positions.
Occurrences(seq, pair) ==
    Cardinality({i \in 1..Len(seq) : PairOf(seq[i]) = pair})

\* C9 as stated: after the scenario the pair has one sighting row, first
\* seen before the refresh; a query whose window reaches back to first_seen
\* returns the pair exactly once while it is not alerted, and not at all once
\* it is.
C9_Scenario ==
    \A pair \in CallerPairs :
        Scenario(pair) =>
            /\ Cardinality(SightingsOf(whale_sightings, pair)) = 1
            /\ \A hours \in CallerHours :
                (\A r \in SightingsOf(whale_sightings, pair) :
                    r.first_seen > now - hours) =>
                        \A seq \in Selections(hours) :
                            Occurrences(seq, pair) =
                                IF pair \in Keys(alerts_sent) THEN 0 ELSE 1

\* C9, amended: the same, the pair being returned only if the refreshed
\* profile shows positions worth at least MIN_BET_ALERT.
C9_ScenarioWithFloor ==
    \A pair \in CallerPairs :
        Scenario(pair) =>
            /\ Cardinality(SightingsOf(whale_sightings, pair)) = 1
            /\ \A hours \in CallerHours :
                (\A r \in SightingsOf(whale_sightings, pair) :
                    r.first_seen > now - hours) =>
                        \A seq \in Selections(hours) :
                            Occurrences(seq, pair) =
                                IF \/ pair \in Keys(alerts_sent)
                                   \/ \E b \in ProfilesOf(bettors, pair[1]) :
                                        b.positions_value < MIN_BET_ALERT
                                THEN 0 ELSE 1

\* C9, its case: the scenario has run at hours 0, 1 and 2, the pair has been
\* marked, and the query with a window reaching back to hour 0 has just
\* returned nothing.
C9_Witness ==
    /\ ret.op = "get_new_sharp_positions"
    /\ ret.at = now
    /\ ~ret.raised
    /\ ret.value = <<>>
    /\ \E pair \in CallerPairs :
        /\ Scenario(pair)
        /\ Eligible(pair, ret.args)
        /\ \E a \in AlertsOf(alerts_sent, pair) : a.alert_timestamp = now

\* C11: in every state every row of bettors carries the is_sharp the
\* classifier gives for the total_pnl, roi and total_volume of that same row,
\* and the row update_bettor has just written carries the verdict on the
\* profile it was given.
C11_FlagIsClassifier ==
    /\ \A b \in bettors : b.is_sharp = is_sharp(b)
    /\ ret.op = "update_bettor" =>
        \A b \in ProfilesOf(bettors, ret.args.wallet_address) :
            b.is_sharp = is_sharp(ret.args)

\* C11, its case: the last call stored, at a later hour, a scraped profile
\* that fails the volume gate alone, and its row is flagged not sharp.
C11_Witness ==
    /\ ret.op = "update_bettor"
    /\ ret.at > 0
    /\ \E b \in ProfilesOf(bettors, ret.args.wallet_address) :
        /\ b.last_updated = ret.at
        /\ b.leaderboard_rank = Some(1)
        /\ b.total_pnl = 15000
        /\ b.total_volume = 40000
        /\ ~b.is_sharp

\* total_pnl / total_volume * 100, and 0 when total_volume is 0.
RoiOf(b) ==
    IF b.total_volume = 0 THEN Ratio(0, 1)
    ELSE Ratio(b.total_pnl * 100, b.total_volume)

\* C12 as stated: the roi of every row of bettors is total_pnl /
\* total_volume * 100 of the same row, 0 when total_volume is 0.
C12_RoiRecomputed == \A b \in bettors : b.roi = RoiOf(b)

\* C12, amended: update_bettor stores the roi of the profile it is given as
\* it is, without working it out again; it is get_user_profile_data that
\* builds profiles whose roi is total_pnl / total_volume * 100 (0 when
\* total_volume is 0).
C12_RoiStoredAsGiven ==
    /\ ret.op = "update_bettor" =>
        \A b \in ProfilesOf(bettors, ret.args.wallet_address) :
            b.roi = ret.args.roi
    /\ \A p \in BuiltProfiles : p.roi = RoiOf(p)

\* C12, its case: the row just written holds the roi of 12 it was given with
\* a total_pnl of 15000 and a total_volume of 60000.
C12_Witness ==
    /\ ret.op = "update_bettor"
    /\ \E b \in ProfilesOf(bettors, ret.args.wallet_address) :
        /\ b.roi = Ratio(12, 1)
        /\ b.total_pnl = 15000
        /\ b.total_volume = 60000

\* C13: a profile built of a page with no volume has roi 0 and is not
\* sharp, and so has every row stored with total_volume 0.
C13_ZeroVolume ==
    /\ \A p \in BuiltProfiles :
        p.total_volume = 0 => (p.roi = Ratio(0, 1) /\ ~is_sharp(p))
    /\ \A b \in bettors :
        b.total_volume = 0 => (b.roi.num = 0 /\ b.roi.den = 1 /\ ~b.is_sharp)

\* C13, its case: a profile with total_pnl 15000 and total_volume 0 has been
\* built and stored.
C13_Witness ==
    \E b \in bettors :
        /\ b.total_volume = 0
        /\ b.total_pnl = 15000
        /\ b.roi = Ratio(0, 1)
        /\ ~b.is_sharp

\* The four conditions of the query on a pair, at hour t for a window of
\* hours: a sighting first seen after t - hours, a profile of its wallet
\* flagged sharp with positions worth 5000 or more, and no alert.
QualifiesAt(pair, hours, t) ==
    /\ \E r \in whale_sightings :
        /\ r.wallet_address = pair[1]
        /\ r.market_url = pair[2]
        /\ r.first_seen > t - hours
    /\ \E b \in bettors :
        /\ b.wallet_address = pair[1]
        /\ b.is_sharp
        /\ b.positions_value >= 5000
    /\ ~\E a \in alerts_sent :
        a.wallet_address = pair[1] /\ a.market_url = pair[2]

\* C14: for every window, a list get_new_sharp_positions may return holds
\* exactly the pairs that meet the four conditions, each once; and so did
\* the list the last call returned.
C14_SelectExactly ==
    /\ \A hours \in CallerHours :
        \A seq \in Selections(hours) :
            /\ SelectedPairs(seq) =
                    {pair \in CallerPairs : QualifiesAt(pair, hours, now)}
            /\ Len(seq) = Cardinality(SelectedPairs(seq))
    /\ (ret.op = "get_new_sharp_positions" /\ ~ret.raised) =>
            /\ SelectedPairs(ret.value) =
                    {pair \in CallerPairs :
                        QualifiesAt(pair, ret.args, ret.at)}
            /\ Len(ret.value) = Cardinality(SelectedPairs(ret.value))

\* C14, its case: the last call returned the one pair of a sharp wallet with
\* positions worth the floor itself, and not the pair, first seen as late,
\* of the wallet that has no profile.
C14_Witness ==
    /\ ret.op = "get_new_sharp_positions"
    /\ ~ret.raised
    /\ Len(ret.value) = 1
    /\ ret.value[1].positions_value = MIN_BET_ALERT
    /\ \E r \in whale_sightings :
        /\ r.first_seen >= ret.value[1].timestamp
        /\ ProfilesOf(bettors, r.wallet_address) = {}

\* C15: a pair first seen at or before now - hours is in no list the query
\* with that window may return, whenever it was last seen.
C15_WindowOnFirstSeen ==
    \A pair \in CallerPairs, hours \in CallerHours :
        (\E r \in SightingsOf(whale_sightings, pair) :
            r.first_seen <= now - hours) =>
                \A seq \in Selections(hours) : pair \notin SelectedPairs(seq)

\* C15, its case: the last call returned nothing, at an hour when a pair
\* first seen before the window had just been seen again and met every
\* other condition.
C15_Witness ==
    /\ ret.op = "get_new_sharp_positions"
    /\ ~ret.raised
    /\ ret.at = now
    /\ ret.value = <<>>
    /\ \E r \in whale_sightings :
        /\ r.first_seen <= now - ret.args
        /\ r.last_seen = now
        /\ <<r.wallet_address, r.market_url>> \notin Keys(alerts_sent)
        /\ \E b \in ProfilesOf(bettors, r.wallet_address) :
            b.is_sharp /\ b.positions_value >= MIN_BET_ALERT

\* Whether the wallet has no profile, or one last updated more than max_age
\* hours before hour t.
IsStale(wallet, max_age, t) ==
    \/ ~\E b \in bettors : b.wallet_address = wallet
    \/ \E b \in bettors :
        b.wallet_address = wallet /\ t - b.last_updated > max_age

\* C16: needs_update is true of a wallet with no profile, true of one whose
\* profile is older than the hours given, false otherwise (at exactly the
\* hours given too); the hours default to 6.
C16_IsStale ==
    /\ PROFILE_HOURS = 6
    /\ \A wallet \in CallerWallets, hours \in CallerAges :
        needs_update(bettors, wallet, now, hours) = IsStale(wallet, hours, now)
    /\ ret.op = "needs_update" =>
        ret.value = IsStale(ret.args[1], ret.args[2], ret.at)

\* C16, its case: asked with the default hours about a profile updated
\* exactly 6 hours ago, the last call returned False.
C16_Witness ==
    /\ ret.op = "needs_update"
    /\ ret.args[2] = 6
    /\ ret.value = FALSE
    /\ \E b \in ProfilesOf(bettors, ret.args[1]) : ret.at - b.last_updated = 6

\* The min_volume values a caller might mean.
CallerMinVolumes == {10000, 50000}

\* The wallets stored flagged sharp, or with total_volume > min_volume, or
\* with a leaderboard_rank.
TrackedAbove(min_volume) ==
    {b.wallet_address : b \in {x \in bettors :
        \/ x.is_sharp
        \/ x.total_volume > min_volume
        \/ x.leaderboard_rank # None}}

\* C17 as stated: whatever min_volume the caller means, the wallets returned
\* are those flagged sharp, or with total_volume > min_volume, or ranked.
C17_TrackedForMinVolume ==
    \A min_volume \in CallerMinVolumes :
        get_all_tracked_wallets(bettors) = TrackedAbove(min_volume)

\* C17, amended: get_all_tracked_wallets takes no min_volume; it returns
\* the wallets flagged sharp, or with total_volume > 10000, or ranked.
C17_TrackedAboveTenThousand ==
    /\ get_all_tracked_wallets(bettors) = TrackedAbove(10000)
    /\ ret.op = "get_all_tracked_wallets" => ret.value = TrackedAbove(10000)

\* C17, its case: the last call returned no wallet, the one stored having
\* a total_volume of 10000, no rank and not being sharp.
C17_Witness ==
    /\ ret.op = "get_all_tracked_wallets"
    /\ ret.value = {}
    /\ \E b \in bettors :
        b.total_volume = 10000 /\ b.leaderboard_rank = None /\ ~b.is_sharp

\* A step of scan_sports_markets on the market at the head of the list.
MarketStep == pc = "market" /\ todo' # todo

C19_OneCycleAtATime ==
    /\ [][(cycle_started' # cycle_started
            \/ (pc' = "scan_leaderboard" /\ pc # "scan_leaderboard")) =>
            /\ pc = "idle"
            /\ todo = <<>> /\ target_wallets = {} /\ ~sent]_vars
    /\ [][pc # "idle" /\ now' # now =>
            UNCHANGED <<pc, todo, target_wallets, cycle_started>>]_vars

\* A cycle is still running an hour or more after it was entered: the job
\* scheduled every 30 minutes has come due and has started nothing.
C19_Witness ==
    /\ pc \in {"market", "post_alert", "mark_alert_sent", "sleep"}
    /\ \E t \in cycle_started : now > t

\* Where run_cycle can be: at rest in main's loop, or in one of its stages.
CyclePcs == {"idle", "scan_leaderboard", "leaderboard_wallet",
             "scan_sports_markets", "market", "check_for_alerts",
             "post_alert", "mark_alert_sent", "sleep"}

\* The places a stage goes on to when nothing is raised.
Following(at) ==
    CASE at = "scan_leaderboard" -> {"leaderboard_wallet", "scan_sports_markets"}
      [] at = "leaderboard_wallet" -> {"leaderboard_wallet", "scan_sports_markets"}
      [] at = "scan_sports_markets" -> {"market", "check_for_alerts"}
      [] at = "market" -> {"market", "check_for_alerts"}
      [] at = "check_for_alerts" -> {"post_alert"}
      [] at = "post_alert" -> {"mark_alert_sent", "sleep"}
      [] at = "mark_alert_sent" -> {"sleep"}
      [] at = "sleep" -> {"post_alert"}
      [] OTHER -> {}

\* C20: no failure of a stage ends the process. Every step of a running
\* cycle goes on to a following stage or, whatever was raised, brings the
\* tracker to rest with the cycle's local state cleared; and at rest the
\* next trigger can always enter a new cycle.
C20_FailureEndsCycleOnly ==
    /\ [](pc \in CyclePcs)
    /\ [](pc = "idle" => ENABLED RunCycle)
    /\ [][pc # "idle" /\ pc' # pc =>
            pc' \in Following(pc) \cup {"idle"}]_vars
    /\ [][pc # "idle" /\ pc' = "idle" =>
            /\ todo' = <<>> /\ target_wallets' = {}
            /\ new_whales_checked' = 0 /\ ~sent']_vars

\* An alert was posted and the store then failed to mark it, which ended
\* that cycle; the tracker has since entered a new cycle.
C20_Witness ==
    /\ pc = "scan_leaderboard"
    /\ TWITTER_ENABLED /\ twitter_bot
    /\ \E pair \in delivered : pair \notin Keys(alerts_sent)

\* C21: after any sequence of record_whale_sighting calls, the row of the
\* pair of the latest call holds the side, the question and the category
\* that call was given, UNKNOWN and NULL included, and the time of that
\* call as last_seen; and a call on a pair that has a row leaves first_seen
\* as it was.
C21_LatestSideEarliestFirstSeen ==
    /\ [](ret.op = "record_whale_sighting" =>
            /\ Cardinality(SightingsOf(whale_sightings, ret.args)) = 1
            /\ \A r \in SightingsOf(whale_sightings, ret.args) :
                  /\ r.side = ret.side
                  /\ r.market_question = ret.question
                  /\ r.market_category = Category(ret.args[2])
                  /\ r.last_seen = ret.at
                  /\ r.first_seen <= ret.at)
    /\ [][\A pair \in CallerPairs :
            \A r \in SightingsOf(whale_sightings, pair) :
              \A q \in SightingsOf(whale_sightings', pair) :
                q.first_seen = r.first_seen]_vars

\* The latest call gave UNKNOWN and no question for a pair first seen an
\* hour or more before, and the row shows neither a side nor a question.
C21_Witness ==
    /\ ret.op = "record_whale_sighting"
    /\ ret.side = "UNKNOWN" /\ ret.question = None
    /\ \E r \in SightingsOf(whale_sightings, ret.args) :
          /\ r.first_seen = 0 /\ r.last_seen = MaxTime
          /\ r.side = "UNKNOWN" /\ r.market_question = None

\* C22: in every state of the tracker each pair of alerts_sent has a row in
\* whale_sightings, and no step removes the row of a pair from
\* whale_sightings.
C22_AlertedPairsWereSighted ==
    /\ [](Keys(alerts_sent) \subseteq Keys(whale_sightings))
    /\ [][Keys(whale_sightings) \subseteq Keys(whale_sightings')]_vars

\* A pair was alerted, and its wallet has since been sighted again on that
\* market and on another one: the alerted pair still has its row.
C22_Witness ==
    \E a \in alerts_sent :
        /\ \E r \in whale_sightings :
              /\ <<r.wallet_address, r.market_url>> =
                     <<a.wallet_address, a.market_url>>
              /\ r.last_seen > a.alert_timestamp
        /\ \E r \in whale_sightings :
              /\ r.wallet_address = a.wallet_address
              /\ r.market_url # a.market_url
              /\ r.first_seen > a.alert_timestamp

\* The stages of a cycle, in the order run_cycle calls them.
Stages == <<"IDLE", "REFRESH_WALLETS", "INGEST_MARKETS", "SELECT_ALERTS",
            "DISPATCH">>

StageOf(at) ==
    CASE at \in {"scan_leaderboard", "leaderboard_wallet"} -> "REFRESH_WALLETS"
      [] at \in {"scan_sports_markets", "market"} -> "INGEST_MARKETS"
      [] at = "check_for_alerts" -> "SELECT_ALERTS"
      [] at \in {"post_alert", "mark_alert_sent", "sleep"} -> "DISPATCH"
      [] OTHER -> "IDLE"

StageRank(at) == CHOOSE i \in DOMAIN Stages : Stages[i] = StageOf(at)

\* C23: the stages of a cycle run in the order REFRESH_WALLETS,
\* INGEST_MARKETS, SELECT_ALERTS, DISPATCH: a step stays in its stage, moves
\* to the next one, or ends the cycle; sightings are written in
\* INGEST_MARKETS only, positions are selected in SELECT_ALERTS only, and
\* posts and alert marks are made in DISPATCH only.
C23_StagesInOrder ==
    /\ [][\/ StageRank(pc') = StageRank(pc)
          \/ StageRank(pc') = StageRank(pc) + 1
          \/ pc' = "idle"]_vars
    /\ [][whale_sightings' # whale_sightings =>
            StageOf(pc) = "INGEST_MARKETS"]_vars
    /\ [][StageOf(pc') = "DISPATCH" /\ StageOf(pc) # "DISPATCH" =>
            /\ pc = "check_for_alerts"
            /\ \E new_positions \in get_new_sharp_positions(bettors,
                      whale_sightings, alerts_sent, now, ALERT_HOURS) :
                  todo' = new_positions]_vars
    /\ [][(alerts_sent' # alerts_sent \/ delivered' # delivered) =>
            StageOf(pc) = "DISPATCH"]_vars

\* Every stage has acted this hour: the wallet's profile was refreshed, a
\* market of the running scan recorded its sighting, the pair was selected
\* and posted, and its mark is about to be written.
C23_Witness ==
    /\ pc = "mark_alert_sent"
    /\ \E b \in bettors : b.last_updated = now
    /\ \E i \in DOMAIN market_log :
          /\ Head(todo).wallet_address \in market_log[i].recorded
          /\ Head(todo).market_url = market_log[i].market
    /\ Head(todo).timestamp = now
    /\ PairOf(Head(todo)) \in delivered

\* C24: a failure raised in REFRESH_WALLETS that is not a storage failure
\* does not keep the later stages of the cycle from running. scan_leaderboard
\* calls no store operation before its loop, so whatever fails there is no
\* storage failure: the step goes on to the loop or to scan_sports_markets,
\* never to rest.
C24_LaterStagesStillRun ==
    [][pc = "scan_leaderboard" /\ pc' # pc =>
        pc' \in Following("scan_leaderboard")]_vars

\* C25: in check_for_alerts every selected position gets its turn, whatever
\* happened to the ones before it: the call of post_alert leaves the list as
\* it is and goes on to the mark or to the pause, the walk ends only after
\* the pause of the last position, and a position whose post_alert returned
\* True has its pair in alerts_sent when its turn is over.
C25_EveryCandidateDispatched ==
    /\ [][pc = "post_alert" /\ pc' # pc =>
            todo' = todo /\ pc' \in {"mark_alert_sent", "sleep"}]_vars
    /\ [][StageOf(pc) = "DISPATCH" /\ pc' = "idle" =>
            pc = "sleep" /\ Tail(todo) = <<>>]_vars
    /\ [][pc = "sleep" /\ pc' # pc /\ sent =>
            PairOf(Head(todo)) \in Keys(alerts_sent)]_vars

\* A store operation that fails outside the market loop ends the cycle at
\* once: an error in the leaderboard loop leaves the store as it was, a
\* mark_alert_sent that wrote nothing leaves the list of positions undone,
\* and at rest nothing is written or posted until run_cycle is entered.
StorageErrorEndsCycle ==
    /\ [][pc = "leaderboard_wallet" /\ pc' = "idle" =>
            UNCHANGED <<store, delivered>>]_vars
    /\ [][pc = "mark_alert_sent" /\ pc' # pc /\ alerts_sent' = alerts_sent =>
            pc' = "idle" /\ todo' = <<>>]_vars
    /\ [][pc = "idle" => UNCHANGED <<store, delivered>>]_vars

\* A market step in which record_whale_sighting raised after its ALTER
\* TABLE: the columns are there and no row was written.
RecordRaised ==
    /\ pc = "market"
    /\ sighting_columns' # sighting_columns
    /\ whale_sightings' = whale_sightings

\* C26 as stated: a failing store operation ends the cycle at once, in the
\* market loop as anywhere else.
C26_StorageErrorAborts ==
    /\ StorageErrorEndsCycle
    /\ [][RecordRaised => pc' = "idle"]_vars

\* C26 as the code has it: a failing store operation ends the cycle at once
\* when it is raised in the leaderboard loop, in the selection or by
\* mark_alert_sent; raised while a market is processed, it ends that market
\* only, and the scan goes on with the rest of the list and then with
\* check_for_alerts.
C26_StorageErrorAbortsOutsideMarkets ==
    /\ StorageErrorEndsCycle
    /\ [][MarketStep => pc' \in Following("market")]_vars
    /\ [][RecordRaised =>
            /\ todo' = Tail(todo)
            /\ pc' = IF Tail(todo) = <<>> THEN "check_for_alerts"
                     ELSE "market"]_vars

\* record_whale_sighting raised for the first market of the running scan
\* after adding the columns, no sighting was ever written, and the scan is
\* at its second market.
C26_Witness ==
    /\ pc = "market" /\ Len(todo) = 1
    /\ Len(market_log) = 1
    /\ market_log[1].raised /\ market_log[1].recorded = {}
    /\ sighting_columns = AddedColumns
    /\ whale_sightings = {}

\* C27: in one scan_leaderboard get_user_profile_data is called for at most
\* MAX_NEW_WALLETS_PER_SCAN wallets, and each wallet it is called for is the
\* next one of the feed whose profile needs an update.
C27_FetchesBounded ==
    /\ [](Len(profile_fetches) <= MAX_NEW_WALLETS_PER_SCAN)
    /\ [][Len(profile_fetches') > Len(profile_fetches) =>
            /\ profile_fetches' = Append(profile_fetches, Head(todo)[1])
            /\ needs_update(bettors, Head(todo)[1], now, PROFILE_HOURS)]_vars

\* C28: the tracker stores a wallet's profile, in scan_leaderboard and in
\* scan_sports_markets alike, only when needs_update answers True for the
\* wallet at that moment: a profile that replaces another is more than
\* PROFILE_HOURS younger, and a profile no older than that is left alone.
C28_FetchedOnlyWhenStale ==
    [][\A w \in Wallets \cup TopHolders :
        LET old == ProfilesOf(bettors, w)
            new == ProfilesOf(bettors', w)
        IN  new # old =>
              /\ needs_update(bettors, w, now, PROFILE_HOURS)
              /\ \A o \in old, n \in new :
                    n.last_updated - o.last_updated > PROFILE_HOURS]_vars

\* A leaderboard wallet sighted in the first hours has a profile stored
\* more than PROFILE_HOURS after that, and a top holder has one too.
C28_Witness ==
    /\ \E b \in bettors :
          /\ b.wallet_address \in Wallets
          /\ \E ws \in whale_sightings :
                /\ ws.wallet_address = b.wallet_address
                /\ b.last_updated - ws.first_seen > PROFILE_HOURS
    /\ \E b \in bettors : b.wallet_address \in TopHolders

\* What the market step just taken logged.
Logged == market_log'[Len(market_log')]

\* Sightings are written by the market scan only, for wallets of its
\* target_wallets, which get_all_tracked_wallets returns at that moment.
OnlyTrackedAreSighted ==
    /\ [][\A row \in whale_sightings' \ whale_sightings :
            /\ pc = "market"
            /\ row.wallet_address \in target_wallets
            /\ row.wallet_address \in get_all_tracked_wallets(bettors)]_vars
    /\ [](pc = "market" =>
            target_wallets \subseteq get_all_tracked_wallets(bettors))

\* After a market step that logged no error, the wallets of the set that
\* the page showed have their sighting for the market, seen now.
SightedAfter(wallets) ==
    \A w \in Logged.observed \cap wallets :
        \E row \in whale_sightings' :
            /\ <<row.wallet_address, row.market_url>> = <<w, Head(todo)>>
            /\ row.last_seen = now

\* C29 as stated: a sighting is recorded for a wallet a market page shows if
\* and only if get_all_tracked_wallets returns the wallet.
C29_SightedIffTracked ==
    /\ OnlyTrackedAreSighted
    /\ [][MarketStep /\ ~Logged.raised =>
            SightedAfter(get_all_tracked_wallets(bettors))]_vars

\* C29 as the code has it: a sighting is recorded for a wallet a market page
\* shows if and only if the wallet is in the set get_all_tracked_wallets
\* returned when the scan started; a wallet stored during the scan is
\* tracked and not sighted until the next cycle.
C29_SightedIffTrackedAtStart ==
    /\ OnlyTrackedAreSighted
    /\ [][pc = "scan_sports_markets" /\ pc' = "market" =>
            target_wallets' = get_all_tracked_wallets(bettors)]_vars
    /\ [][MarketStep /\ ~Logged.raised =>
            /\ SightedAfter(target_wallets)
            /\ Logged.recorded = Logged.observed \cap target_wallets]_vars

\* The last page showed a target wallet and a top holder: the first has its
\* sighting, the second has none.
C29_Witness ==
    /\ market_log # <<>>
    /\ LET last == market_log[Len(market_log)]
       IN  /\ ~last.raised
           /\ last.observed = Wallets \cup TopHolders
           /\ last.recorded = Wallets
           /\ \A w \in Wallets : \E row \in whale_sightings :
                 /\ <<row.wallet_address, row.market_url>> = <<w, last.market>>
                 /\ row.last_seen = now
           /\ ~\E row \in whale_sightings : row.wallet_address \in TopHolders

\* C30: batched ingestion covers the feed exactly, whatever the feed and the
\* batch size: while a scan walks its feed, every step it takes processes
\* the market at the head of what is left of the feed, once and in feed
\* order (the market is logged and only it leaves the list), the scan goes
\* on to the alerts only when no market is left, and a sighting recorded
\* for an earlier market is kept whatever happens to a later one.
C30_FeedCoveredExactly ==
    [][pc = "market" =>
          /\ todo' = Tail(todo)
          /\ Len(market_log') = Len(market_log) + 1
          /\ market_log'[Len(market_log')].market = Head(todo)
          /\ pc' # "market" => pc' = "check_for_alerts" /\ Tail(todo) = <<>>
          /\ \A row \in whale_sightings :
                row.market_url # Head(todo) => row \in whale_sightings']_vars

\* The steps of check_for_alerts that stand in its loop over new_positions.
DispatchPcs == {"post_alert", "mark_alert_sent", "sleep"}

\* C31: the candidates come back from get_new_sharp_positions with the
\* latest first_seen first and post_alert is called for them in that order:
\* of the candidates a cycle still has to dispatch, none has a first_seen
\* later than one before it in the list, and the candidate dispatched next
\* is the one that followed in the list.
C31_DispatchedLatestFirst ==
    [][/\ pc' \in DispatchPcs =>
            \A i, j \in 1..Len(todo') :
                i < j => todo'[j].timestamp <= todo'[i].timestamp
       /\ pc = "sleep" /\ pc' = "post_alert" =>
            /\ todo' = Tail(todo)
            /\ Head(todo').timestamp <= Head(todo).timestamp]_vars

\* C31 witness: the second of two candidates is about to be dispatched, the
\* first one, seen first at a later hour, having been dispatched.
C31_Witness ==
    /\ pc = "post_alert"
    /\ Len(todo) = 1
    /\ \E ws \in whale_sightings :
          /\ ws.first_seen > Head(todo).timestamp
          /\ ws.wallet_address = Head(todo).wallet_address
          /\ ws.market_url # Head(todo).market_url
          /\ now - ws.first_seen < ALERT_HOURS
          /\ <<ws.wallet_address, ws.market_url>> \in delivered

\* The rows of a list.
Rows(seq) == {seq[i] : i \in 1..Len(seq)}

\* C32: get_new_sharp_positions only reads: a call of it leaves the three
\* tables as they were, and a call that follows another with nothing
\* written in between, the same window and the same clock, returns the same
\* candidates.
C32_SelectOnlyReads ==
    [][/\ (ret'.op = "get_new_sharp_positions" /\ ret' # ret) =>
            store' = store
       /\ (/\ ret.op = "get_new_sharp_positions"
           /\ ret'.op = "get_new_sharp_positions"
           /\ ret'.args = ret.args
           /\ ret'.at = ret.at) =>
            /\ ret'.raised = ret.raised
            /\ ~ret.raised => Rows(ret'.value) = Rows(ret.value)]_vars

\* C32 witness: a call has returned a candidate, and the tables hold what
\* made it one and an alert for another pair.
C32_Witness ==
    /\ ret.op = "get_new_sharp_positions"
    /\ ~ret.raised
    /\ ret.value # <<>>
    /\ ret.at = now
    /\ alerts_sent # {}
    /\ \E ws \in whale_sightings : PairOf(ws) = PairOf(Head(ret.value))

\* C33: time.sleep(5) separates two calls of post_alert in a cycle: a call,
\* whatever it returned, is followed by the marking or by the sleep and by
\* no other call, the marking by the sleep (or by the end of the cycle), and
\* a call that is not the first of its cycle is entered from the sleep.
C33_SleepBetweenDispatches ==
    [][/\ (pc = "post_alert" /\ now' = now) =>
            pc' \in {"mark_alert_sent", "sleep"}
       /\ pc = "mark_alert_sent" =>
            pc' \in {"mark_alert_sent", "sleep", "idle"}
       /\ (pc' = "post_alert" /\ pc # "post_alert") =>
            \/ pc = "check_for_alerts"
            \/ pc = "sleep" /\ todo' = Tail(todo)]_vars

\* C33 witness: the second candidate of a cycle is about to be posted, after
\* the sleep that followed the failed post of the first one.
C33_Witness ==
    /\ pc = "post_alert"
    /\ Len(todo) = 1
    /\ TWITTER_ENABLED
    /\ \E ws \in whale_sightings :
          /\ ws.wallet_address = Head(todo).wallet_address
          /\ ws.market_url # Head(todo).market_url
          /\ ws.first_seen >= Head(todo).timestamp
          /\ AlertsOf(alerts_sent, PairOf(ws)) = {}
          /\ PairOf(ws) \in failed

\* C34: update_bettor replaces the whole row of the wallet: after a call
\* there is one row for the wallet of the profile and it carries the
\* username, total_pnl, total_volume, markets_traded, positions_value,
\* last_updated and leaderboard_rank of the profile, null or not; the rows
\* of the other wallets, the sightings and the alerts are as they were. And
\* nothing else writes to bettors.
C34_FullRowReplace ==
    [][(bettors' # bettors \/ (ret' # ret /\ ret'.op = "update_bettor")) =>
          LET given == ret'.args
              stored == ProfilesOf(bettors', given.wallet_address)
          IN  /\ ret'.op = "update_bettor"
              /\ Cardinality(stored) = 1
              /\ \A b \in stored :
                    /\ b.username = given.username
                    /\ b.total_pnl = given.total_pnl
                    /\ b.total_volume = given.total_volume
                    /\ b.markets_traded = given.markets_traded
                    /\ b.positions_value = given.positions_value
                    /\ b.last_updated = given.last_updated
                    /\ b.leaderboard_rank = given.leaderboard_rank
              /\ bettors' \ stored =
                    bettors \ ProfilesOf(bettors, given.wallet_address)
              /\ whale_sightings' = whale_sightings
              /\ alerts_sent' = alerts_sent]_vars

\* C34 witness: the last call gave a profile without username and rank for
\* a wallet that has sightings and alerts; another wallet's row has both.
C34_Witness ==
    /\ ret.op = "update_bettor"
    /\ ret.args.username = None
    /\ ret.args.leaderboard_rank = None
    /\ ret.args.last_updated < now
    /\ \E b \in bettors :
          /\ b.wallet_address # ret.args.wallet_address
          /\ b.username # None
          /\ b.leaderboard_rank # None
    /\ \E ws \in whale_sightings : ws.wallet_address = ret.args.wallet_address
    /\ \E a \in alerts_sent : a.wallet_address = ret.args.wallet_address

\* The pairs of a wallet that a call of get_new_sharp_positions(hours) made
\* in the state a step leads to may return.
SelectedNext(wallet, hours) ==
    {pair \in CallerPairs :
        /\ pair[1] = wallet
        /\ \E seq \in get_new_sharp_positions(bettors', whale_sightings',
                            alerts_sent', now', hours) :
                pair \in SelectedPairs(seq)}

\* The pairs of a wallet that have a sighting first seen inside the window
\* and no alert, in the state a step leads to.
BacklogNext(wallet, hours) ==
    {pair \in CallerPairs :
        /\ pair[1] = wallet
        /\ \E ws \in SightingsOf(whale_sightings', pair) :
                ws.first_seen > now' - hours
        /\ AlertsOf(alerts_sent', pair) = {}}

\* C35: the verdict is read when the candidates are selected, not when the
\* sighting is recorded. After update_bettor has been given a sharp profile,
\* with positions worth the floor, for a wallet that was not sharp, a
\* selection made next returns every unalerted sighting of the wallet first
\* seen inside the window, those recorded before the call included; after it
\* has been given a profile that is not sharp, a selection returns none of
\* the wallet's sightings.
C35_BacklogReevaluated ==
    [][(ret'.op = "update_bettor" /\ ret' # ret) =>
          LET wallet == ret'.args.wallet_address
              was_sharp == \E b \in ProfilesOf(bettors, wallet) : b.is_sharp
              given == ret'.args
          IN  \A hours \in CallerHours :
                /\ (/\ ~was_sharp
                    /\ is_sharp(given)
                    /\ given.positions_value >= MIN_BET_ALERT) =>
                        \A seq \in get_new_sharp_positions(bettors',
                                whale_sightings', alerts_sent', now', hours) :
                            {pair \in SelectedPairs(seq) : pair[1] = wallet}
                                = BacklogNext(wallet, hours)
                /\ ~is_sharp(given) => SelectedNext(wallet, hours) = {}]_vars

\* C35 witness: update_bettor has just stored as sharp, with positions worth
\* the floor, a wallet that has an unalerted sighting first seen an hour
\* before.
C35_Witness ==
    /\ ret.op = "update_bettor"
    /\ ret.at = now
    /\ \E b \in ProfilesOf(bettors, ret.args.wallet_address) :
          /\ b.is_sharp
          /\ b.positions_value >= MIN_BET_ALERT
          /\ b.last_updated = now
    /\ \E ws \in whale_sightings :
          /\ ws.wallet_address = ret.args.wallet_address
          /\ ws.first_seen < now
          /\ ws.first_seen > now - ALERT_HOURS
          /\ AlertsOf(alerts_sent, PairOf(ws)) = {}

\* C36: the contract of record_whale_sighting holds when calls for the same
\* pair interleave, each taking its timestamp and then writing: after a
\* write the pair has one row, whose first_seen is no later than the
\* timestamp of this call nor than the first_seen the pair had (so it is the
\* earliest timestamp any call took), and whose last_seen is not earlier
\* than its first_seen.
C36_EarliestUnderInterleaving ==
    [][(/\ ret'.op = "record_whale_sighting"
        /\ (ret' # ret \/ whale_sightings' # whale_sightings)) =>
          LET rows == SightingsOf(whale_sightings', ret'.args)
          IN  /\ Cardinality(rows) = 1
              /\ \A r \in rows :
                    /\ r.first_seen <= ret'.at
                    /\ \A old \in SightingsOf(whale_sightings, ret'.args) :
                          r.first_seen <= old.first_seen
                    /\ r.last_seen >= r.first_seen]_vars

\* The pair was first seen ALERT_HOURS ago or earlier.
AgedOut(pair) ==
    \E r \in SightingsOf(whale_sightings, pair) :
        r.first_seen <= now - ALERT_HOURS

\* The cycle is dispatching a list that holds the pair.
InDispatch(pair) ==
    pc \in DispatchPcs /\ pair \in SelectedPairs(todo)

\* C37: retrying ends with the window. A pair that is not alerted when its
\* first_seen has left the window of check_for_alerts, and that the running
\* cycle is not dispatching, is selected by no later cycle and never gets
\* into alerts_sent, whatever its wallet's profile becomes and however often
\* it is sighted again.
C37_RetryEndsWithWindow ==
    [][\A pair \in CallerPairs \cup (Wallets \X Markets) :
          (/\ AgedOut(pair)
           /\ pair \notin Keys(alerts_sent)
           /\ ~InDispatch(pair)) =>
                /\ pair \notin Keys(alerts_sent')
                /\ ~(pc' \in DispatchPcs /\ pair \in SelectedPairs(todo'))
                /\ \E r \in SightingsOf(whale_sightings', pair) :
                        r.first_seen <= now' - ALERT_HOURS]_vars

\* C37 witness: every post of a pair has failed, the cycle is over, and the
\* pair, its wallet still sharp with positions worth the floor, was first
\* seen ALERT_HOURS ago: it is not alerted and will not be.
C37_Witness ==
    /\ pc = "idle"
    /\ twitter_bot
    /\ \E pair \in failed :
          /\ AgedOut(pair)
          /\ pair \notin Keys(alerts_sent)
          /\ pair \notin delivered
          /\ \E b \in ProfilesOf(bettors, pair[1]) :
                b.is_sharp /\ b.positions_value >= MIN_BET_ALERT
          /\ \E r \in SightingsOf(whale_sightings, pair) : r.last_seen = now

\* C38: with a notifier and posting disabled, post_alert answers True and
\* posts nothing, so every candidate a cycle selected is marked in that
\* cycle: each call of post_alert is followed by the marking, the marking
\* puts the pair in alerts_sent and goes on to the sleep, the loop ends only
\* after the last candidate; and no pair alerts_sent holds is dispatched.
C38_DisabledPostingMarksAll ==
    [][~TWITTER_ENABLED =>
          /\ (pc = "post_alert" /\ now' = now) =>
                /\ sent'
                /\ pc' = "mark_alert_sent"
                /\ delivered' = delivered
          /\ (pc = "mark_alert_sent" /\ now' = now) =>
                /\ PairOf(Head(todo)) \in Keys(alerts_sent')
                /\ pc' = "sleep"
          /\ (pc = "sleep" /\ pc' = "idle") => Tail(todo) = <<>>
          /\ pc' = "post_alert" =>
                PairOf(Head(todo')) \notin Keys(alerts_sent')]_vars

\* The wallets the running scan_leaderboard has stored a profile for: those
\* it fetched (none of which had a fresh row) that have a row.
UpsertedInScan ==
    {w \in Rows(profile_fetches) : ProfilesOf(bettors, w) # {}}

\* C39: the budget of scan_leaderboard counts the profiles stored. One scan
\* stores at most MAX_NEW_WALLETS_PER_SCAN profiles; a fetch that gives no
\* profile leaves new_whales_checked as it was and the scan goes on to the
\* next wallet; and once the scan has stored that many profiles it fetches
\* no other wallet.
C39_BudgetCountsUpserts ==
    /\ [](Cardinality(UpsertedInScan) <= MAX_NEW_WALLETS_PER_SCAN)
    /\ [][/\ (/\ Len(profile_fetches') > Len(profile_fetches)
               /\ bettors' = bettors
               /\ pc' = "leaderboard_wallet") =>
                    new_whales_checked' = new_whales_checked
          /\ Cardinality(UpsertedInScan) = MAX_NEW_WALLETS_PER_SCAN =>
                    Len(profile_fetches') <= Len(profile_fetches)]_vars

\* C39 witness: a scan has fetched as many wallets as the budget allows to
\* store, the page of one could not be read, and the last wallet of the
\* feed, which has no profile, is still to come with budget left for it.
C39_Witness ==
    /\ pc = "leaderboard_wallet"
    /\ Len(profile_fetches) = MAX_NEW_WALLETS_PER_SCAN
    /\ Cardinality(UpsertedInScan) = MAX_NEW_WALLETS_PER_SCAN - 1
    /\ new_whales_checked = MAX_NEW_WALLETS_PER_SCAN - 1
    /\ Len(todo) = 1
    /\ ProfilesOf(bettors, Head(todo)[1]) = {}

\* C40: a tracker built without a notifier never gets into the loop of
\* check_for_alerts: no post_alert, no mark_alert_sent, alerts_sent and the
\* statuses posted stay as they are, and check_for_alerts returns at once.
C40_NoNotifierNoDispatch ==
    [][~twitter_bot =>
          /\ alerts_sent' = alerts_sent
          /\ delivered' = delivered
          /\ pc' \notin DispatchPcs
          /\ pc = "check_for_alerts" =>
                pc' \in {"check_for_alerts", "idle"}]_vars

\* C40 witness: without a notifier a cycle has stored a sharp profile and
\* recorded a sighting that meets every condition of the query, and has
\* ended with alerts_sent empty.
C40_Witness ==
    /\ ~twitter_bot
    /\ pc = "idle"
    /\ alerts_sent = {}
    /\ \E pair \in Wallets \X Markets :
          /\ Eligible(pair, ALERT_HOURS)
          /\ \E r \in SightingsOf(whale_sightings, pair) :
                r.first_seen < r.last_seen
====
